---- MODULE Spec2Model ----
(***************************************************************************)
(* skill-manager: the format transformer of src/target.rs.                 *)
(*                                                                         *)
(* Text is modelled as a sequence of characters (one-character strings),   *)
(* a file as the character sequence of its content, "\n" included, so     *)
(* that str::lines, trim, starts_with, contains and split are computed     *)
(* the way the code computes them.                                         *)
(***************************************************************************)
EXTENDS Integers, Sequences, FiniteSets, TLC

VARIABLES tool, stype, bundle, name, srcFile, destPath, destFile, via, format, pc, gen,
          sourceDir, companions, install, sources, root, outcome, base, manifest

\* the state of one write_file call
writeVars == <<tool, stype, bundle, name, srcFile, destPath, destFile, via, format, pc, gen,
               sourceDir, companions>>

\* the state of an install command, of the configured sources, of a scan and of
\* the directory the artifacts are installed under with its install manifest
commandVars == <<install, sources, root, outcome, base, manifest>>

vars == <<writeVars, commandVars>>

(***************************************************************************)
(* String literals of the source                                           *)
(***************************************************************************)
str_delim == <<"-", "-", "-">>
str_description_colon == <<"d", "e", "s", "c", "r", "i", "p", "t", "i", "o", "n", ":">>
str_alwaysApply_colon == <<"a", "l", "w", "a", "y", "s", "A", "p", "p", "l", "y", ":">>
str_tools_colon == <<"t", "o", "o", "l", "s", ":">>
str_color_colon == <<"c", "o", "l", "o", "r", ":">>
str_name_prefix == <<"n", "a", "m", "e", ":", " ">>
str_description_open == <<"d", "e", "s", "c", "r", "i", "p", "t", "i", "o", "n", ":", " ", "\"">>
str_alwaysApply_true == <<"a", "l", "w", "a", "y", "s", "A", "p", "p", "l", "y", ":", " ", "t", "r", "u", "e">>
str_alwaysApply_false == <<"a", "l", "w", "a", "y", "s", "A", "p", "p", "l", "y", ":", " ", "f", "a", "l", "s", "e">>
str_ellipsis == <<".", ".", ".">>
str_Skill_instructions == <<"S", "k", "i", "l", "l", " ", "i", "n", "s", "t", "r", "u", "c", "t", "i", "o", "n", "s">>
str_colon_true == <<":", " ", "t", "r", "u", "e">>
str_colon_false == <<":", " ", "f", "a", "l", "s", "e">>
str_tools_prefix == <<"t", "o", "o", "l", "s", ":", " ">>
str_comma_space == <<",", " ">>
str_name_colon == <<"n", "a", "m", "e", ":">>
str_Read == <<"R", "e", "a", "d">>
str_read == <<"r", "e", "a", "d">>
str_Write == <<"W", "r", "i", "t", "e">>
str_write == <<"w", "r", "i", "t", "e">>
str_Edit == <<"E", "d", "i", "t">>
str_edit == <<"e", "d", "i", "t">>
str_Grep == <<"G", "r", "e", "p">>
str_grep == <<"g", "r", "e", "p">>
str_Glob == <<"G", "l", "o", "b">>
str_glob == <<"g", "l", "o", "b">>
str_Bash == <<"B", "a", "s", "h">>
str_bash == <<"b", "a", "s", "h">>
str_WebSearch == <<"W", "e", "b", "S", "e", "a", "r", "c", "h">>
str_websearch == <<"w", "e", "b", "s", "e", "a", "r", "c", "h">>
str_WebFetch == <<"W", "e", "b", "F", "e", "t", "c", "h">>
str_webfetch == <<"w", "e", "b", "f", "e", "t", "c", "h">>
str_TodoWrite == <<"T", "o", "d", "o", "W", "r", "i", "t", "e">>
str_todowrite == <<"t", "o", "d", "o", "w", "r", "i", "t", "e">>
str_TodoRead == <<"T", "o", "d", "o", "R", "e", "a", "d">>
str_todoread == <<"t", "o", "d", "o", "r", "e", "a", "d">>
str_LS == <<"L", "S">>
str_MultiEdit == <<"M", "u", "l", "t", "i", "E", "d", "i", "t">>
str_Task == <<"T", "a", "s", "k">>
str_NotebookEdit == <<"N", "o", "t", "e", "b", "o", "o", "k", "E", "d", "i", "t">>
str_NotebookRead == <<"N", "o", "t", "e", "b", "o", "o", "k", "R", "e", "a", "d">>
str_AskUserQuestion == <<"A", "s", "k", "U", "s", "e", "r", "Q", "u", "e", "s", "t", "i", "o", "n">>
str_question == <<"q", "u", "e", "s", "t", "i", "o", "n">>
str_KillBash == <<"K", "i", "l", "l", "B", "a", "s", "h">>
str_BashOutput == <<"B", "a", "s", "h", "O", "u", "t", "p", "u", "t">>
str_list == <<"l", "i", "s", "t">>
str_lsp == <<"l", "s", "p">>
str_patch == <<"p", "a", "t", "c", "h">>
str_skill == <<"s", "k", "i", "l", "l">>
str_SKILL_md == <<"S", "K", "I", "L", "L", ".", "m", "d">>
str_RULE_md == <<"R", "U", "L", "E", ".", "m", "d">>
str_dot_md == <<".", "m", "d">>
str_dot_claude_skills == <<".", "c", "l", "a", "u", "d", "e", "/", "s", "k", "i", "l", "l", "s">>
str_dot_claude_rules == <<".", "c", "l", "a", "u", "d", "e", "/", "r", "u", "l", "e", "s">>
str_dot_claude_agents == <<".", "c", "l", "a", "u", "d", "e", "/", "a", "g", "e", "n", "t", "s">>
str_dot_claude_commands == <<".", "c", "l", "a", "u", "d", "e", "/", "c", "o", "m", "m", "a", "n", "d", "s">>
str_dot_opencode_skills == <<".", "o", "p", "e", "n", "c", "o", "d", "e", "/", "s", "k", "i", "l", "l", "s">>
str_dot_opencode_rules == <<".", "o", "p", "e", "n", "c", "o", "d", "e", "/", "r", "u", "l", "e", "s">>
str_dot_opencode_agents == <<".", "o", "p", "e", "n", "c", "o", "d", "e", "/", "a", "g", "e", "n", "t", "s">>
str_dot_opencode_commands == <<".", "o", "p", "e", "n", "c", "o", "d", "e", "/", "c", "o", "m", "m", "a", "n", "d", "s">>
str_dot_cursor_skills == <<".", "c", "u", "r", "s", "o", "r", "/", "s", "k", "i", "l", "l", "s">>
str_dot_cursor_rules == <<".", "c", "u", "r", "s", "o", "r", "/", "r", "u", "l", "e", "s">>
str_dot_cursor_agents == <<".", "c", "u", "r", "s", "o", "r", "/", "a", "g", "e", "n", "t", "s">>
str_dot_cursor_commands == <<".", "c", "u", "r", "s", "o", "r", "/", "c", "o", "m", "m", "a", "n", "d", "s">>
str_dot_codex_skills == <<".", "c", "o", "d", "e", "x", "/", "s", "k", "i", "l", "l", "s">>
str_dot_codex_rules == <<".", "c", "o", "d", "e", "x", "/", "r", "u", "l", "e", "s">>
str_dot_codex_agents == <<".", "c", "o", "d", "e", "x", "/", "a", "g", "e", "n", "t", "s">>
str_dot_codex_commands == <<".", "c", "o", "d", "e", "x", "/", "c", "o", "m", "m", "a", "n", "d", "s">>
line_name == <<"n", "a", "m", "e", ":", " ", "x">>
line_description == <<"d", "e", "s", "c", "r", "i", "p", "t", "i", "o", "n", ":", " ", "d">>
line_alwaysApply == <<"a", "l", "w", "a", "y", "s", "A", "p", "p", "l", "y", ":", " ", "t", "r", "u", "e">>
line_heading == <<"#", " ", "T">>
line_para == <<"p">>
line_tools_bare == <<"t", "o", "o", "l", "s", ":">>
line_tools_two == <<"t", "o", "o", "l", "s", ":", " ", "R", "e", "a", "d", ",", " ", "G", "r", "e", "p">>
line_tools_same == <<"t", "o", "o", "l", "s", ":", " ", "B", "a", "s", "h", ",", " ", "L", "S", ",", " ", "T", "a", "s", "k">>
line_tools_unknown == <<"t", "o", "o", "l", "s", ":", " ", "R", "e", "a", "d", ",", " ", "C", "u", "s", "t", "o", "m", "M", "C", "P">>
line_tools_one == <<"t", "o", "o", "l", "s", ":", " ", "R", "e", "a", "d">>
line_read_true == <<" ", " ", "r", "e", "a", "d", ":", " ", "t", "r", "u", "e">>
line_write_false == <<" ", " ", "w", "r", "i", "t", "e", ":", " ", "f", "a", "l", "s", "e">>
line_bash_true == <<" ", " ", "b", "a", "s", "h", ":", " ", "t", "r", "u", "e">>
line_model == <<"m", "o", "d", "e", "l", ":", " ", "s", "o", "n", "n", "e", "t">>
line_color == <<"c", "o", "l", "o", "r", ":", " ", "r", "e", "d">>
line_hidden_true == <<"h", "i", "d", "d", "e", "n", ":", " ", "t", "r", "u", "e">>
line_body == <<"B", "o", "d", "y">>

(***************************************************************************)
(* std string operations used by the source                                *)
(***************************************************************************)
\* chr_e_acute stands for one two-byte UTF-8 character; all others are ASCII
chr_e_acute == "U+00E9"

\* str::len: the length in bytes, one per character and one more for each
\* two-byte character
byte_len(s) == Len(s) + Cardinality({i \in DOMAIN s : s[i] = chr_e_acute})

\* char::is_whitespace for the characters that occur
is_whitespace(c) == c \in {" ", "\t", "\r", "\n"}

RECURSIVE trim_start(_)
trim_start(s) == IF s # <<>> /\ is_whitespace(Head(s)) THEN trim_start(Tail(s)) ELSE s

RECURSIVE trim_end(_)
trim_end(s) == IF s # <<>> /\ is_whitespace(s[Len(s)]) THEN trim_end(SubSeq(s, 1, Len(s) - 1)) ELSE s

trim(s) == trim_end(trim_start(s))

starts_with(s, p) == Len(s) >= Len(p) /\ SubSeq(s, 1, Len(p)) = p

contains(s, p) == \E i \in 1..(Len(s) - Len(p) + 1) : SubSeq(s, i, i + Len(p) - 1) = p

RECURSIVE trim_start_matches(_, _)
\* str::trim_start_matches: strips the prefix as often as it repeats
trim_start_matches(s, p) == IF p # <<>> /\ starts_with(s, p) THEN trim_start_matches(SubSeq(s, Len(p) + 1, Len(s)), p) ELSE s

RECURSIVE split(_, _)
\* str::split on one character: always at least one piece
split(s, sep) ==
    IF \E i \in 1..Len(s) : s[i] = sep
    THEN LET i == CHOOSE k \in 1..Len(s) : s[k] = sep /\ \A j \in 1..(k - 1) : s[j] # sep
         IN  <<SubSeq(s, 1, i - 1)>> \o split(SubSeq(s, i + 1, Len(s)), sep)
    ELSE <<s>>

\* str::lines: a line ends at "\n" or "\r\n"; no line follows a final "\n";
\* a "\r" that is not followed by "\n" stays in the line
lines_of(content) ==
    LET pieces == split(content, "\n")
        n == Len(pieces)
        kept == IF pieces[n] = <<>> THEN n - 1 ELSE n
        strip(i) == IF i < n /\ pieces[i] # <<>> /\ pieces[i][Len(pieces[i])] = "\r"
                    THEN SubSeq(pieces[i], 1, Len(pieces[i]) - 1)
                    ELSE pieces[i]
    IN  [i \in 1..kept |-> strip(i)]

RECURSIVE push_lines(_)
\* the loop `for line in ... { result.push_str(line); result.push('\n'); }`
push_lines(ls) == IF ls = <<>> THEN <<>> ELSE Head(ls) \o <<"\n">> \o push_lines(Tail(ls))

RECURSIVE join(_, _)
\* [&str]::join
join(items, sep) ==
    IF items = <<>> THEN <<>>
    ELSE IF Len(items) = 1 THEN items[1]
    ELSE items[1] \o sep \o join(Tail(items), sep)

\* iter.skip(n) on a sequence
skip(ls, n) == SubSeq(ls, n + 1, Len(ls))

\* a panic (or an Err) of a transform: no output is produced
Panic == [ok |-> FALSE, out |-> <<>>]

Done(text) == [ok |-> TRUE, out |-> text]

(***************************************************************************)
(* Description synthesis                                                   *)
(***************************************************************************)
DescMax == 200

DescCut == 197

\* str::is_char_boundary(n) for 0 < n < len
is_char_boundary(text, n) == \E k \in 0..Len(text) : byte_len(SubSeq(text, 1, k)) = n

\* &text[..n]: the characters of the first n bytes
byte_prefix(text, n) == SubSeq(text, 1, CHOOSE k \in 0..Len(text) : byte_len(SubSeq(text, 1, k)) = n)

\* truncate_description: len() counts bytes and the slice panics when byte
\* 197 is not a character boundary
truncate_description(text) ==
    IF byte_len(text) <= DescMax THEN Done(text)
    ELSE IF is_char_boundary(text, DescCut) THEN Done(byte_prefix(text, DescCut) \o str_ellipsis)
    ELSE Panic

\* the first line from index start_from (0-based) on that is neither blank
\* nor "---" after trimming
extract_description_from_body(lines, start_from) ==
    LET cand == {i \in (start_from + 1)..Len(lines) : trim(lines[i]) # <<>> /\ trim(lines[i]) # str_delim}
    IN  IF cand = {} THEN Done(str_Skill_instructions)
        ELSE LET i == CHOOSE k \in cand : \A j \in cand : k <= j
                 trimmed == trim(lines[i])
             IN  IF starts_with(trimmed, <<"#">>)
                 THEN truncate_description(trim(trim_start_matches(trimmed, <<"#">>)))
                 ELSE truncate_description(trimmed)

(***************************************************************************)
(* Frontmatter scan shared by the normalizers                              *)
(***************************************************************************)
\* 0-based index of the closing "---" (the first "---" after line 0), or 0
\* when there is none: the value frontmatter_end / fm_end has after the loop
frontmatter_end_of(lines) ==
    LET closing == {i \in 2..Len(lines) : lines[i] = str_delim}
    IN  IF closing = {} THEN 0 ELSE (CHOOSE k \in closing : \A j \in closing : k <= j) - 1

\* the lines the scan loop looks at while in_frontmatter is set
scanned_frontmatter(lines) ==
    IF frontmatter_end_of(lines) = 0 THEN skip(lines, 1)
    ELSE SubSeq(lines, 2, frontmatter_end_of(lines))

\* a scan that takes only a line equal to the field name for the field
has_field_exact(lines, field) == \E i \in DOMAIN scanned_frontmatter(lines) : scanned_frontmatter(lines)[i] = field

has_field(lines, field) == \E i \in DOMAIN scanned_frontmatter(lines) : starts_with(scanned_frontmatter(lines)[i], field)

\* lines.iter().skip(1).take(frontmatter_end - 1); when frontmatter_end is 0
\* the subtraction has wrapped to usize::MAX and take() yields every line
take_frontmatter(lines) ==
    IF frontmatter_end_of(lines) = 0 THEN skip(lines, 1)
    ELSE SubSeq(lines, 2, frontmatter_end_of(lines))

\* a description written under the key `desc:`
description_line_short_key(desc) == <<"d", "e", "s", "c", ":", " ", "\"">> \o desc \o <<"\"", "\n">>

description_line(desc) == str_description_open \o desc \o <<"\"", "\n">>

\* result.push_str(&content) appends the source text as it was read; the
\* first definition appends it line by line instead, each line followed by "\n"
push_content_by_line(content) == push_lines(lines_of(content))

push_content(content) == content

\* transform_skill_file.  wraps: the build has overflow checks off, so
\* `frontmatter_end - 1` wraps instead of panicking
transform_skill_file(content, skill_name, wraps) ==
    LET lines == lines_of(content)
    IN  IF lines # <<>> /\ lines[1] = str_delim
        THEN LET has_name == has_field(lines, str_name_colon)
                 has_description == has_field(lines, str_description_colon)
                 frontmatter_end == frontmatter_end_of(lines)
                 desc == extract_description_from_body(lines, frontmatter_end + 1)
             IN  IF has_name /\ has_description THEN Done(content)
                 ELSE IF frontmatter_end = 0 /\ ~wraps THEN Panic
                 ELSE IF ~has_description /\ ~desc.ok THEN Panic
                 ELSE Done(str_delim \o <<"\n">>
                           \o (IF has_name THEN <<>> ELSE str_name_prefix \o skill_name \o <<"\n">>)
                           \o push_lines(take_frontmatter(lines))
                           \o (IF has_description THEN <<>> ELSE description_line(desc.out))
                           \o push_lines(skip(lines, frontmatter_end)))
        ELSE LET desc == extract_description_from_body(lines, 0)
             IN  IF ~desc.ok THEN Panic
                 ELSE Done(str_delim \o <<"\n">>
                           \o str_name_prefix \o skill_name \o <<"\n">>
                           \o description_line(desc.out)
                           \o str_delim \o <<"\n">>
                           \o push_content(content))

\* transform_cursor_rule: ensures description and alwaysApply; the skill
\* name is not used
transform_cursor_rule(content, skill_name, wraps) ==
    LET lines == lines_of(content)
    IN  IF lines # <<>> /\ lines[1] = str_delim
        THEN LET has_description == has_field(lines, str_description_colon)
                 has_always_apply == has_field(lines, str_alwaysApply_colon)
                 fm_end == frontmatter_end_of(lines)
                 desc == extract_description_from_body(lines, fm_end + 1)
             IN  IF has_description /\ has_always_apply THEN Done(content)
                 ELSE IF fm_end = 0 /\ ~wraps THEN Panic
                 ELSE IF ~has_description /\ ~desc.ok THEN Panic
                 ELSE Done(str_delim \o <<"\n">>
                           \o push_lines(take_frontmatter(lines))
                           \o (IF has_description THEN <<>> ELSE description_line(desc.out))
                           \o (IF has_always_apply THEN <<>> ELSE str_alwaysApply_false \o <<"\n">>)
                           \o push_lines(skip(lines, fm_end)))
        ELSE LET desc == extract_description_from_body(lines, 0)
             IN  IF ~desc.ok THEN Panic
                 ELSE Done(str_delim \o <<"\n">>
                           \o description_line(desc.out)
                           \o str_alwaysApply_false \o <<"\n">>
                           \o str_delim \o <<"\n">>
                           \o content)

\* a comma-list `tools:` line, as the agent transforms test it
is_tools_list(line) == starts_with(trim(line), str_tools_colon) /\ contains(line, <<",">>)

\* transform_cursor_agent: ensures name and description and drops a
\* comma-list tools line
transform_cursor_agent(content, skill_name, wraps) ==
    LET lines == lines_of(content)
    IN  IF lines # <<>> /\ lines[1] = str_delim
        THEN LET has_name == has_field(lines, str_name_colon)
                 has_description == has_field(lines, str_description_colon)
                 fm_end == frontmatter_end_of(lines)
                 desc == extract_description_from_body(lines, fm_end + 1)
                 copied == SelectSeq(take_frontmatter(lines), LAMBDA l : ~is_tools_list(l))
             IN  IF has_name /\ has_description THEN Done(content)
                 ELSE IF fm_end = 0 /\ ~wraps THEN Panic
                 ELSE IF ~has_description /\ ~desc.ok THEN Panic
                 ELSE Done(str_delim \o <<"\n">>
                           \o (IF has_name THEN <<>> ELSE str_name_prefix \o skill_name \o <<"\n">>)
                           \o push_lines(copied)
                           \o (IF has_description THEN <<>> ELSE description_line(desc.out))
                           \o push_lines(skip(lines, fm_end)))
        ELSE LET desc == extract_description_from_body(lines, 0)
             IN  IF ~desc.ok THEN Panic
                 ELSE Done(str_delim \o <<"\n">>
                           \o str_name_prefix \o skill_name \o <<"\n">>
                           \o description_line(desc.out)
                           \o str_delim \o <<"\n">>
                           \o content)

(***************************************************************************)
(* Agent format detection and capability remapping                         *)
(***************************************************************************)
RECURSIVE detect_scan_bare_only(_, _, _)
\* a detection that takes only a bare `tools:` line for the OpenCode format
detect_scan_bare_only(lines, i, in_fm) ==
    IF i > Len(lines) THEN "Unknown"
    ELSE IF lines[i] = str_delim
         THEN IF in_fm THEN "Unknown" ELSE detect_scan_bare_only(lines, i + 1, TRUE)
    ELSE IF in_fm /\ starts_with(trim(lines[i]), str_tools_colon)
         THEN IF contains(lines[i], <<",">>) THEN "Claude"
              ELSE IF trim(lines[i]) = str_tools_colon THEN "OpenCode"
              ELSE "Unknown"
    ELSE detect_scan_bare_only(lines, i + 1, in_fm)

RECURSIVE detect_scan(_, _, _)
\* the loop of detect_agent_format from line i on (1-based)
detect_scan(lines, i, in_fm) ==
    IF i > Len(lines) THEN "Unknown"
    ELSE IF lines[i] = str_delim
         THEN IF in_fm THEN "Unknown" ELSE detect_scan(lines, i + 1, TRUE)
    ELSE IF in_fm /\ starts_with(trim(lines[i]), str_tools_colon)
         THEN IF contains(lines[i], <<",">>) THEN "Claude" ELSE "OpenCode"
    ELSE detect_scan(lines, i + 1, in_fm)

detect_agent_format(content) == detect_scan(lines_of(content), 1, FALSE)

RECURSIVE split_frontmatter(_, _, _, _, _, _)
\* the parse loop of transform_agent_file and transform_agent_for_claude:
\* every "---" line toggles in_frontmatter and is dropped
split_frontmatter(lines, i, in_frontmatter, found_end, frontmatter_lines, body_lines) ==
    IF i > Len(lines) THEN [frontmatter_lines |-> frontmatter_lines, body_lines |-> body_lines]
    ELSE IF lines[i] = str_delim
         THEN IF in_frontmatter
              THEN split_frontmatter(lines, i + 1, FALSE, TRUE, frontmatter_lines, body_lines)
              ELSE split_frontmatter(lines, i + 1, TRUE, found_end, frontmatter_lines, body_lines)
    ELSE IF in_frontmatter /\ ~found_end
         THEN split_frontmatter(lines, i + 1, in_frontmatter, found_end, Append(frontmatter_lines, lines[i]), body_lines)
    ELSE split_frontmatter(lines, i + 1, in_frontmatter, found_end, frontmatter_lines, Append(body_lines, lines[i]))

\* claude_to_opencode_tool: unknown names pass through as they are
claude_to_opencode_tool(t) ==
    CASE t \in {str_Read, str_read} -> str_read
      [] t \in {str_Write, str_write} -> str_write
      [] t \in {str_Edit, str_edit} -> str_edit
      [] t \in {str_Grep, str_grep} -> str_grep
      [] t \in {str_Glob, str_glob} -> str_glob
      [] t \in {str_Bash, str_bash} -> str_bash
      [] t \in {str_WebSearch, str_websearch} -> str_websearch
      [] t \in {str_WebFetch, str_webfetch} -> str_webfetch
      [] t \in {str_TodoWrite, str_todowrite} -> str_todowrite
      [] t \in {str_TodoRead, str_todoread} -> str_todoread
      [] t = str_LS -> str_bash
      [] t = str_MultiEdit -> str_edit
      [] t = str_Task -> str_bash
      [] t = str_NotebookEdit -> str_edit
      [] t = str_NotebookRead -> str_read
      [] t \in {str_AskUserQuestion, str_question} -> str_question
      [] t \in {str_KillBash, str_BashOutput} -> str_bash
      [] t = str_list -> str_list
      [] t = str_lsp -> str_lsp
      [] t = str_patch -> str_patch
      [] t = str_skill -> str_skill
      [] OTHER -> t

\* an arm that writes the listed names without mapping them
tools_object_unmapped(line) ==
    LET tools_str == trim(trim_start_matches(line, str_tools_colon))
        tool_list == [i \in DOMAIN split(tools_str, ",") |-> trim(split(tools_str, ",")[i])]
    IN  str_tools_colon \o <<"\n">>
        \o push_lines([i \in DOMAIN tool_list |-> <<" ", " ">> \o tool_list[i] \o str_colon_true])

\* the `tools:` arm of transform_agent_file: one entry line per list item
tools_object(line) ==
    LET tools_str == trim(trim_start_matches(line, str_tools_colon))
        tool_list == [i \in DOMAIN split(tools_str, ",") |-> trim(split(tools_str, ",")[i])]
    IN  str_tools_colon \o <<"\n">>
        \o push_lines([i \in DOMAIN tool_list |-> <<" ", " ">> \o claude_to_opencode_tool(trim(tool_list[i])) \o str_colon_true])

RECURSIVE opencode_frontmatter(_)
\* the while loop of transform_agent_file over frontmatter_lines
opencode_frontmatter(frontmatter_lines) ==
    IF frontmatter_lines = <<>> THEN <<>>
    ELSE LET line == Head(frontmatter_lines)
         IN  (IF is_tools_list(line) THEN tools_object(line)
              ELSE IF starts_with(trim(line), str_color_colon) THEN <<>>
              ELSE line \o <<"\n">>)
             \o opencode_frontmatter(Tail(frontmatter_lines))

\* transform_agent_file (Claude -> OpenCode)
transform_agent_file(content) ==
    LET lines == lines_of(content)
        parsed == split_frontmatter(lines, 1, FALSE, FALSE, <<>>, <<>>)
    IN  IF lines = <<>> \/ lines[1] # str_delim THEN Done(content)
        ELSE Done(str_delim \o <<"\n">>
                  \o opencode_frontmatter(parsed.frontmatter_lines)
                  \o str_delim \o <<"\n">>
                  \o push_lines(parsed.body_lines))

\* opencode_to_claude_tool
opencode_to_claude_tool(t) ==
    CASE t = str_read -> str_Read
      [] t = str_write -> str_Write
      [] t = str_edit -> str_Edit
      [] t = str_grep -> str_Grep
      [] t = str_glob -> str_Glob
      [] t = str_bash -> str_Bash
      [] t = str_websearch -> str_WebSearch
      [] t = str_webfetch -> str_WebFetch
      [] t = str_todowrite -> str_TodoWrite
      [] t = str_todoread -> str_TodoRead
      [] t = str_question -> str_AskUserQuestion
      [] t = str_list -> str_LS
      [] t = str_lsp -> str_lsp
      [] t = str_patch -> str_patch
      [] t = str_skill -> str_skill
      [] OTHER -> t

RECURSIVE collect_tools(_, _, _)
\* the inner while loop of transform_agent_for_claude from line i on
\* (1-based): returns the index it stops at and the tools collected
collect_tools(frontmatter_lines, i, tools) ==
    IF i > Len(frontmatter_lines) THEN [i |-> i, tools |-> tools]
    ELSE LET inner == trim(frontmatter_lines[i])
         IN  IF contains(inner, str_colon_true)
             THEN collect_tools(frontmatter_lines, i + 1,
                                Append(tools, opencode_to_claude_tool(trim(split(inner, ":")[1]))))
             ELSE IF contains(inner, str_colon_false)
             THEN collect_tools(frontmatter_lines, i + 1, tools)
             ELSE IF inner = <<>> \/ (~starts_with(inner, <<" ">>) /\ ~starts_with(inner, <<"-">>))
             THEN [i |-> i, tools |-> tools]
             ELSE collect_tools(frontmatter_lines, i + 1, tools)

RECURSIVE claude_frontmatter(_, _)
\* the outer while loop of transform_agent_for_claude from line i on
claude_frontmatter(frontmatter_lines, i) ==
    IF i > Len(frontmatter_lines) THEN <<>>
    ELSE IF trim(frontmatter_lines[i]) = str_tools_colon
         THEN LET c == collect_tools(frontmatter_lines, i + 1, <<>>)
              IN  (IF c.tools # <<>> THEN str_tools_prefix \o join(c.tools, str_comma_space) \o <<"\n">> ELSE <<>>)
                  \o claude_frontmatter(frontmatter_lines, c.i)
    ELSE frontmatter_lines[i] \o <<"\n">> \o claude_frontmatter(frontmatter_lines, i + 1)

\* transform_agent_for_claude (OpenCode -> Claude)
transform_agent_for_claude(content) ==
    LET lines == lines_of(content)
        parsed == split_frontmatter(lines, 1, FALSE, FALSE, <<>>, <<>>)
    IN  IF lines = <<>> \/ lines[1] # str_delim THEN Done(content)
        ELSE Done(str_delim \o <<"\n">>
                  \o claude_frontmatter(parsed.frontmatter_lines, 1)
                  \o str_delim \o <<"\n">>
                  \o push_lines(parsed.body_lines))

(***************************************************************************)
(* Destination layout and write_file                                       *)
(***************************************************************************)
\* a join that replaces the path by every component, absolute or not
path_join_replace(p, c) == c

\* PathBuf::join: an absolute component replaces the path
path_join(p, c) ==
    IF starts_with(c, <<"/">>) THEN c
    ELSE IF p = <<>> \/ p[Len(p)] = "/" THEN p \o c
    ELSE p \o <<"/">> \o c

\* a combined name that leaves the bundle out
combined_name_plain(bundle_name, skill_name) == skill_name

\* format!("{}-{}", bundle_name, skill.name)
combined_name(bundle_name, skill_name) == bundle_name \o <<"-">> \o skill_name

\* format!("{}.md", ...)
md_file(stem) == stem \o str_dot_md

\* fs::copy
copy(content) == Done(content)

\* what one write_file call did: the destination, the outcome, the transform
\* that ran and the agent format detected ("none" when detection did not run)
Written(path, res, by, fmt) == [path |-> path, res |-> res, via |-> by, format |-> fmt]

\* the Agent arm of write_claude
claude_agent(content) ==
    IF detect_agent_format(content) = "OpenCode"
    THEN Written(<<>>, transform_agent_for_claude(content), "transform_agent_for_claude", detect_agent_format(content))
    ELSE Written(<<>>, copy(content), "copy", detect_agent_format(content))

\* the Agent arm of write_opencode
opencode_agent(content) ==
    IF detect_agent_format(content) = "Claude"
    THEN Written(<<>>, transform_agent_file(content), "transform_agent_file", detect_agent_format(content))
    ELSE Written(<<>>, copy(content), "copy", detect_agent_format(content))

\* Tool::write_claude: the destination path, the content written and the
\* transform that wrote it
write_claude_file(target_dir, bundle_name, st, skill_name, content, wraps) ==
    LET combined == combined_name(bundle_name, skill_name)
    IN  CASE st = "Skill" ->
               Written(path_join(path_join(path_join(target_dir, str_dot_claude_skills), combined), str_SKILL_md),
                       transform_skill_file(content, combined, wraps), "transform_skill_file", "none")
          [] st = "Rule" ->
               Written(path_join(path_join(path_join(target_dir, str_dot_claude_rules), combined), str_RULE_md),
                       transform_skill_file(content, combined, wraps), "transform_skill_file", "none")
          [] st = "Agent" ->
               Written(path_join(path_join(path_join(target_dir, str_dot_claude_agents), bundle_name), md_file(skill_name)),
                       claude_agent(content).res, claude_agent(content).via, claude_agent(content).format)
          [] st = "Command" ->
               Written(path_join(path_join(path_join(target_dir, str_dot_claude_commands), bundle_name), md_file(skill_name)),
                       copy(content), "copy", "none")

\* Tool::write_opencode
write_opencode_file(target_dir, bundle_name, st, skill_name, content, wraps) ==
    LET combined == combined_name(bundle_name, skill_name)
    IN  CASE st = "Skill" ->
               Written(path_join(path_join(path_join(target_dir, str_dot_opencode_skills), combined), str_SKILL_md),
                       transform_skill_file(content, combined, wraps), "transform_skill_file", "none")
          [] st = "Rule" ->
               Written(path_join(path_join(path_join(target_dir, str_dot_opencode_rules), combined), str_RULE_md),
                       transform_skill_file(content, combined, wraps), "transform_skill_file", "none")
          [] st = "Agent" ->
               Written(path_join(path_join(target_dir, str_dot_opencode_agents), md_file(combined)),
                       opencode_agent(content).res, opencode_agent(content).via, opencode_agent(content).format)
          [] st = "Command" ->
               Written(path_join(path_join(target_dir, str_dot_opencode_commands), md_file(combined)),
                       copy(content), "copy", "none")

\* Tool::write_cursor
write_cursor_file(target_dir, bundle_name, st, skill_name, content, wraps) ==
    LET combined == combined_name(bundle_name, skill_name)
    IN  CASE st = "Skill" ->
               Written(path_join(path_join(path_join(target_dir, str_dot_cursor_skills), combined), str_SKILL_md),
                       transform_skill_file(content, combined, wraps), "transform_skill_file", "none")
          [] st = "Agent" ->
               Written(path_join(path_join(target_dir, str_dot_cursor_agents), md_file(combined)),
                       transform_cursor_agent(content, combined, wraps), "transform_cursor_agent", "none")
          [] st = "Command" ->
               Written(path_join(path_join(target_dir, str_dot_cursor_commands), md_file(combined)),
                       copy(content), "copy", "none")
          [] st = "Rule" ->
               Written(path_join(path_join(path_join(target_dir, str_dot_cursor_rules), combined), str_RULE_md),
                       transform_cursor_rule(content, combined, wraps), "transform_cursor_rule", "none")

\* Tool::write_codex
write_codex_file(target_dir, bundle_name, st, skill_name, content, wraps) ==
    LET combined == combined_name(bundle_name, skill_name)
    IN  CASE st = "Skill" ->
               Written(path_join(path_join(path_join(target_dir, str_dot_codex_skills), combined), str_SKILL_md),
                       transform_skill_file(content, combined, wraps), "transform_skill_file", "none")
          [] st = "Agent" ->
               Written(path_join(path_join(target_dir, str_dot_codex_agents), md_file(combined)),
                       transform_cursor_agent(content, combined, wraps), "transform_cursor_agent", "none")
          [] st = "Command" ->
               Written(path_join(path_join(target_dir, str_dot_codex_commands), md_file(combined)),
                       copy(content), "copy", "none")
          [] st = "Rule" ->
               Written(path_join(path_join(path_join(target_dir, str_dot_codex_rules), combined), str_RULE_md),
                       transform_cursor_rule(content, combined, wraps), "transform_cursor_rule", "none")

(***************************************************************************)
(* Companion files of a folder-sourced artifact                            *)
(***************************************************************************)
\* skill.source_dir = None; Some(dir) is a folder record with some = TRUE
NoDir == [some |-> FALSE, files |-> {}, dirs |-> {}]

\* a file name that is not valid Unicode: OsString::into_string fails on it
name_not_unicode == "\\xFF"

str_meta_yaml == "meta.yaml"

into_string_ok(file_name) == file_name # name_not_unicode

\* A folder is a record of the paths of its files and of its directories,
\* each path the sequence of names below the folder.
Folder(files, dirs) == [some |-> TRUE, files |-> files, dirs |-> dirs]

\* fs::read_dir(p): the entries directly below p
read_dir(folder, p) ==
    {q \in folder.files \cup folder.dirs : Len(q) = Len(p) + 1 /\ SubSeq(q, 1, Len(p)) = p}

file_name(p) == p[Len(p)]

is_dir(folder, p) == p \in folder.dirs

\* skill.path of a folder-sourced artifact: manifest.rs looks for the
\* expected file of the type directly in the folder
main_file(st) ==
    CASE st = "Skill" -> <<"SKILL.md">>
      [] st = "Agent" -> <<"AGENT.md">>
      [] st = "Command" -> <<"COMMAND.md">>
      [] st = "Rule" -> <<"RULE.md">>

RECURSIVE copy_dir_recursive(_, _, _)
copy_dir_recursive(folder, src, dest) ==
    {[path |-> dest, kind |-> "dir"]}
    \cup UNION {LET dest_path == dest \o <<file_name(e)>>
                IN  IF is_dir(folder, e) THEN copy_dir_recursive(folder, e, dest_path)
                    ELSE {[path |-> dest_path, kind |-> "file"]}
                : e \in read_dir(folder, src)}

\* copy_companion_files: the entries created below dest_dir
copy_companion_files(source_dir, skill_path) ==
    IF source_dir = NoDir THEN {}
    ELSE UNION {LET dest_path == <<file_name(e)>>
                IN  IF e = skill_path THEN {}
                    ELSE IF ~into_string_ok(file_name(e)) THEN {}
                    ELSE IF file_name(e) = str_meta_yaml THEN {}
                    ELSE IF is_dir(source_dir, e) THEN copy_dir_recursive(source_dir, e, dest_path)
                    ELSE {[path |-> dest_path, kind |-> "file"]}
                : e \in read_dir(source_dir, <<>>)}

\* the arms of write_claude: every arm copies the companions
write_claude_companions(st, source_dir, skill_path) == copy_companion_files(source_dir, skill_path)

\* the arms of write_opencode, write_cursor and write_codex: the Skill and
\* Rule arms copy the companions, the Agent and Command arms do not; the
\* first definition copies them in every arm
write_companions_every_type(st, source_dir, skill_path) == copy_companion_files(source_dir, skill_path)

write_opencode_companions(st, source_dir, skill_path) ==
    IF st \in {"Skill", "Rule"} THEN copy_companion_files(source_dir, skill_path) ELSE {}

write_cursor_companions(st, source_dir, skill_path) ==
    IF st \in {"Skill", "Rule"} THEN copy_companion_files(source_dir, skill_path) ELSE {}

write_codex_companions(st, source_dir, skill_path) ==
    IF st \in {"Skill", "Rule"} THEN copy_companion_files(source_dir, skill_path) ELSE {}

(***************************************************************************)
(* States in which no command, source list or scan is under way            *)
(***************************************************************************)
NoInstall == [cmd |-> "none", files |-> <<>>, attempted |-> {}, written |-> {}, count |-> 0, errors |-> 0, status |-> "idle"]

NoOutcome == [op |-> "none", ok |-> TRUE, bundles |-> <<>>, found |-> <<>>, source |-> 0]

\* LocalSource.path does not exist
NoRoot == [some |-> FALSE, files |-> {}, dirs |-> {}, unreadable |-> {}, named |-> {}, declared |-> {}, descending |-> FALSE]

\* nothing is installed under the base directory, and no command has run on it
NoBase ==
    [files |-> {}, dirs |-> {}, installed |-> {}, op |-> "none", arg |-> <<>>, listed |-> {},
     before |-> [files |-> {}, dirs |-> {}], ok |-> TRUE, removed |-> 0, errors |-> 0]

\* InstallManifest::default(), and no call made on it
NoManifest == [bundles |-> <<>>, op |-> "none", name |-> <<>>, source |-> <<>>, returned |-> FALSE, before |-> <<>>]

NoCommand ==
    /\ install = NoInstall
    /\ sources = <<>>
    /\ root = NoRoot
    /\ outcome = NoOutcome
    /\ base = NoBase
    /\ manifest = NoManifest

(***************************************************************************)
(* Inputs: source files built from a few lines                             *)
(***************************************************************************)
MaxFm == 2

MaxEntries == 2

MaxGen == 1

SeqsUpTo(S, n) == UNION {[1..m -> S] : m \in 0..n}

\* the file whose lines are ls, with the given line ending, with or without
\* a line ending after the last line
Render(ls, eol, final) ==
    IF ls = <<>> THEN <<>>
    ELSE join(ls, eol) \o (IF final THEN eol ELSE <<>>)

Tools == {"Claude", "OpenCode", "Cursor", "Codex"}

SkillTypes == {"Skill", "Agent", "Command", "Rule"}

TargetDir == <<"/", "w">>

Bundles == {<<"b">>, <<"b", "-", "x">>}

Names == {<<"n">>, <<"x", "-", "n">>}

SkillFmLines == {line_name, line_description, line_alwaysApply}

\* bodies: empty, a heading, a paragraph, a blank line first, a "---" rule
\* first, heading and paragraph, a lone blank line
SkillBodies ==
    {<<>>, <<line_heading>>, <<line_para>>, <<<<>>, line_heading>>, <<str_delim, line_para>>,
     <<line_heading, <<>>, line_para>>, <<<<>>>>}

\* markdown files without frontmatter, with a closed frontmatter block and
\* with an opening "---" that is never closed
SkillLineSeqs ==
    SkillBodies
    \cup {<<str_delim>> \o f \o <<str_delim>> \o b : f \in SeqsUpTo(SkillFmLines, MaxFm), b \in SkillBodies}
    \cup {<<str_delim>> \o f \o b : f \in SeqsUpTo(SkillFmLines, MaxFm), b \in SkillBodies \ {<<str_delim, line_para>>}}

SkillContents ==
    {Render(ls, <<"\n">>, final) : ls \in SkillLineSeqs, final \in BOOLEAN}
    \cup {Render(ls, <<"\r", "\n">>, TRUE) : ls \in SkillLineSeqs}

(***************************************************************************)
(* State machine: one artifact is written by write_file of its tool        *)
(***************************************************************************)
InitSkill ==
    /\ tool \in Tools
    /\ stype \in {"Skill", "Rule"}
    /\ bundle = <<"b">>
    /\ name = <<"n">>
    /\ srcFile \in SkillContents
    /\ destPath = <<>>
    /\ destFile = <<>>
    /\ via = "none"
    /\ format = "none"
    /\ pc = "ready"
    /\ gen = 0
    /\ sourceDir = NoDir
    /\ companions = {}
    /\ NoCommand

\* the outcome of one write_file call: Ok(dest_file) with the file written,
\* or a panic / Err with no file written
Finish(w, copied) ==
    /\ pc' = IF w.res.ok THEN "written" ELSE "failed"
    /\ destPath' = IF w.res.ok THEN w.path ELSE <<>>
    /\ destFile' = w.res.out
    /\ via' = w.via
    /\ format' = w.format
    /\ companions' = IF w.res.ok THEN copied ELSE {}
    /\ UNCHANGED <<tool, stype, bundle, name, srcFile, gen, sourceDir>>
    /\ UNCHANGED commandVars

write_claude ==
    /\ pc = "ready"
    /\ tool = "Claude"
    /\ \E wraps \in BOOLEAN : Finish(write_claude_file(TargetDir, bundle, stype, name, srcFile, wraps),
                                   write_claude_companions(stype, sourceDir, main_file(stype)))

write_opencode ==
    /\ pc = "ready"
    /\ tool = "OpenCode"
    /\ \E wraps \in BOOLEAN : Finish(write_opencode_file(TargetDir, bundle, stype, name, srcFile, wraps),
                                   write_opencode_companions(stype, sourceDir, main_file(stype)))

write_cursor ==
    /\ pc = "ready"
    /\ tool = "Cursor"
    /\ \E wraps \in BOOLEAN : Finish(write_cursor_file(TargetDir, bundle, stype, name, srcFile, wraps),
                                   write_cursor_companions(stype, sourceDir, main_file(stype)))

write_codex ==
    /\ pc = "ready"
    /\ tool = "Codex"
    /\ \E wraps \in BOOLEAN : Finish(write_codex_file(TargetDir, bundle, stype, name, srcFile, wraps),
                                   write_codex_companions(stype, sourceDir, main_file(stype)))

\* the file just written becomes the source file (skill.path) of the next
\* write of the same artifact
source_from_dest ==
    /\ pc = "written"
    /\ gen < MaxGen
    /\ srcFile' = destFile
    /\ destPath' = <<>>
    /\ destFile' = <<>>
    /\ via' = "none"
    /\ format' = "none"
    /\ pc' = "ready"
    /\ gen' = gen + 1
    /\ UNCHANGED <<tool, stype, bundle, name, sourceDir, companions>>
    /\ UNCHANGED commandVars

Next == write_claude \/ write_opencode \/ write_cursor \/ write_codex \/ source_from_dest

SpecSkill == InitSkill /\ [][Next]_vars

(***************************************************************************)
(* Properties of the frontmatter normalizer                                *)
(***************************************************************************)
\* C1: transform_skill_file is the identity on complete input: when the
\* source starts with a "---" line, has a closing "---" line and a `name:`
\* line and a `description:` line between the two, the file written is
\* byte for byte the source
NormalizeIdentityOnComplete ==
    (pc = "written" /\ via = "transform_skill_file") =>
        LET ls == lines_of(srcFile)
            closing == {j \in 2..Len(ls) : ls[j] = str_delim}
            first_closing == CHOOSE j \in closing : \A k \in closing : j <= k
            block_has(field) == \E i \in 2..(first_closing - 1) : starts_with(ls[i], field)
        IN  (ls # <<>> /\ ls[1] = str_delim /\ closing # {}
             /\ block_has(str_name_colon) /\ block_has(str_description_colon))
            => destFile = srcFile

\* a complete source without a final newline was written unchanged
CompleteSourceWritten ==
    /\ pc = "written"
    /\ via = "transform_skill_file"
    /\ gen = 0
    /\ srcFile = Render(<<str_delim, line_name, line_description, str_delim, line_heading>>, <<"\n">>, FALSE)
    /\ destFile = srcFile

\* C2: transform_skill_file is idempotent: applied to the file it produced
\* (from any source: no frontmatter, fields missing, unclosed frontmatter,
\* empty file) it writes the same bytes again
NormalizeIdempotent ==
    (pc = "written" /\ via = "transform_skill_file" /\ gen >= 1) => destFile = srcFile

\* the output for the source "# T" (no frontmatter) was normalized again
NormalizedTwice ==
    /\ pc = "written"
    /\ via = "transform_skill_file"
    /\ gen = 1
    /\ srcFile = str_delim \o <<"\n">> \o str_name_prefix \o <<"b", "-", "n", "\n">>
                 \o str_description_open \o <<"T", "\"", "\n">> \o str_delim \o <<"\n">> \o line_heading
    /\ destFile = srcFile

\* the frontmatter of a file as a reader sees it: the lines after a leading
\* "---" line up to the next "---" line (or the end of the file)
FrontmatterOf(content) ==
    LET ls == lines_of(content)
        closing == {j \in 2..Len(ls) : ls[j] = str_delim}
    IN  IF ls = <<>> \/ ls[1] # str_delim THEN <<>>
        ELSE IF closing = {} THEN SubSeq(ls, 2, Len(ls))
        ELSE SubSeq(ls, 2, (CHOOSE j \in closing : \A k \in closing : j <= k) - 1)

HasFrontmatter(content) == lines_of(content) # <<>> /\ lines_of(content)[1] = str_delim

FieldLines(content, field) == SelectSeq(FrontmatterOf(content), LAMBDA l : starts_with(l, field))

\* C3 as stated: every Skill or Rule file written, for every tool, has a
\* frontmatter with a `name:` and a `description:` field, the name being
\* `{bundle}-{artifact name}` when the source has none
NameAndDescriptionForEveryTool ==
    (pc = "written" /\ stype \in {"Skill", "Rule"}) =>
        /\ HasFrontmatter(destFile)
        /\ FieldLines(destFile, str_name_colon) # <<>>
        /\ FieldLines(destFile, str_description_colon) # <<>>
        /\ FieldLines(srcFile, str_name_colon) = <<>>
           => FieldLines(destFile, str_name_colon) = <<str_name_prefix \o bundle \o <<"-">> \o name>>

\* C3 amended: the file written always has a `description:` field; it has a
\* `name:` field, synthesized as `{bundle}-{artifact name}` when the source
\* has none, for a Skill on every tool and for a Rule on Claude and
\* OpenCode; a Rule written for Cursor or Codex gets no synthesized name and
\* has a `name:` field only if its source has one
NameAndDescriptionWritten ==
    (pc = "written" /\ stype \in {"Skill", "Rule"}) =>
        /\ HasFrontmatter(destFile)
        /\ FieldLines(destFile, str_description_colon) # <<>>
        /\ (stype = "Skill" \/ tool \in {"Claude", "OpenCode"}) =>
              /\ FieldLines(destFile, str_name_colon) # <<>>
              /\ FieldLines(srcFile, str_name_colon) = <<>>
                 => FieldLines(destFile, str_name_colon) = <<str_name_prefix \o bundle \o <<"-">> \o name>>
        /\ (stype = "Rule" /\ tool \in {"Cursor", "Codex"}) =>
              FieldLines(destFile, str_name_colon) = FieldLines(srcFile, str_name_colon)

\* a Rule without frontmatter was written for Claude with a synthesized name
RuleNameSynthesized ==
    /\ pc = "written"
    /\ tool = "Claude"
    /\ stype = "Rule"
    /\ gen = 0
    /\ srcFile = line_heading
    /\ FieldLines(destFile, str_name_colon) = <<str_name_prefix \o <<"b", "-", "n">>>>
    /\ FieldLines(destFile, str_description_colon) # <<>>

\* C4 as stated: every RULE.md written, for every tool, has an
\* `alwaysApply:` field: `alwaysApply: false` when the source has none, the
\* source's own line otherwise
AlwaysApplyForEveryTool ==
    (pc = "written" /\ stype = "Rule") =>
        FieldLines(destFile, str_alwaysApply_colon) =
            IF FieldLines(srcFile, str_alwaysApply_colon) = <<>> THEN <<<<"a", "l", "w", "a", "y", "s", "A", "p", "p", "l", "y", ":", " ", "f", "a", "l", "s", "e">>>>
            ELSE FieldLines(srcFile, str_alwaysApply_colon)

\* C4 amended: a RULE.md written for Cursor or Codex has an `alwaysApply:`
\* field, `alwaysApply: false` when the source has none and the source's own
\* line otherwise; a RULE.md written for Claude or OpenCode gets no
\* `alwaysApply:` field added and keeps the source's own line, if any
AlwaysApplyWritten ==
    (pc = "written" /\ stype = "Rule") =>
        FieldLines(destFile, str_alwaysApply_colon) =
            IF FieldLines(srcFile, str_alwaysApply_colon) = <<>> /\ tool \in {"Cursor", "Codex"}
            THEN <<<<"a", "l", "w", "a", "y", "s", "A", "p", "p", "l", "y", ":", " ", "f", "a", "l", "s", "e">>>>
            ELSE FieldLines(srcFile, str_alwaysApply_colon)

\* a Rule with frontmatter but no alwaysApply was written for Codex
AlwaysApplyDefaulted ==
    /\ pc = "written"
    /\ tool = "Codex"
    /\ stype = "Rule"
    /\ gen = 0
    /\ srcFile = Render(<<str_delim, line_description, str_delim, line_heading>>, <<"\n">>, TRUE)
    /\ FieldLines(destFile, str_alwaysApply_colon) = <<<<"a", "l", "w", "a", "y", "s", "A", "p", "p", "l", "y", ":", " ", "f", "a", "l", "s", "e">>>>

(***************************************************************************)
(* Destination layout                                                      *)
(***************************************************************************)
LayoutContents == {<<>>, line_heading, Render(<<str_delim, line_name, line_tools_two, str_delim, line_body>>, <<"\n">>, TRUE)}

InitLayout ==
    /\ tool \in Tools
    /\ stype \in SkillTypes
    /\ bundle \in Bundles
    /\ name \in Names
    /\ srcFile \in LayoutContents
    /\ destPath = <<>>
    /\ destFile = <<>>
    /\ via = "none"
    /\ format = "none"
    /\ pc = "ready"
    /\ gen = 0
    /\ sourceDir = NoDir
    /\ companions = {}
    /\ NoCommand

SpecLayout == InitLayout /\ [][Next]_vars

dir_claude == <<".", "c", "l", "a", "u", "d", "e">>
dir_opencode == <<".", "o", "p", "e", "n", "c", "o", "d", "e">>
dir_cursor == <<".", "c", "u", "r", "s", "o", "r">>
dir_codex == <<".", "c", "o", "d", "e", "x">>
seg_skills == <<"/", "s", "k", "i", "l", "l", "s", "/">>
seg_rules == <<"/", "r", "u", "l", "e", "s", "/">>
seg_agents == <<"/", "a", "g", "e", "n", "t", "s", "/">>
seg_commands == <<"/", "c", "o", "m", "m", "a", "n", "d", "s", "/">>
seg_SKILL_md == <<"/", "S", "K", "I", "L", "L", ".", "m", "d">>
seg_RULE_md == <<"/", "R", "U", "L", "E", ".", "m", "d">>
path_claude_agent_bx_n == <<"/", "w", "/", ".", "c", "l", "a", "u", "d", "e", "/", "a", "g", "e", "n", "t", "s", "/", "b", "-", "x", "/", "n", ".", "m", "d">>

ToolDir == [Claude |-> dir_claude, OpenCode |-> dir_opencode, Cursor |-> dir_cursor, Codex |-> dir_codex]

TableNames ==
    {str_Read, str_read, str_Write, str_write, str_Edit, str_edit, str_Grep, str_grep, str_Glob, str_glob,
     str_Bash, str_bash, str_WebSearch, str_websearch, str_WebFetch, str_webfetch, str_TodoWrite, str_todowrite,
     str_TodoRead, str_todoread, str_LS, str_MultiEdit, str_Task, str_NotebookEdit, str_NotebookRead,
     str_AskUserQuestion, str_question, str_KillBash, str_BashOutput, str_list, str_lsp, str_patch, str_skill}

AgentToolsLines == {<<>>, <<line_tools_bare>>, <<line_tools_two>>, <<line_tools_same>>, <<line_tools_unknown>>, <<line_tools_one>>}

AgentEntryLines == {line_read_true, line_write_false, line_bash_true}

\* fields after the tools block
AgentPosts == {<<>>, <<line_model>>, <<line_color>>, <<line_hidden_true>>, <<line_hidden_true, line_model>>}

AgentBodies == {<<>>, <<line_body>>, <<line_body, str_delim, line_body>>}

\* agent files: an optional line before the opening "---", a name,
\* an optional tools line, nested entries, further fields, the closing "---"
\* (or none) and a body
AgentLineSeqs ==
    {lead \o <<str_delim>> \o pre \o t \o e \o p \o closing \o b :
        lead \in {<<>>, <<line_body>>},
        pre \in {<<line_name>>},
        t \in AgentToolsLines,
        e \in SeqsUpTo(AgentEntryLines, MaxEntries),
        p \in AgentPosts,
        closing \in {<<>>, <<str_delim>>},
        b \in AgentBodies}

\* one two-item list per table name
TableToolsLines == {str_tools_prefix \o t \o str_comma_space \o str_Read : t \in TableNames}

AgentContents ==
    {Render(ls, <<"\n">>, TRUE) : ls \in AgentLineSeqs}
    \cup {Render(<<str_delim, l, str_delim, line_body>>, <<"\n">>, TRUE) : l \in TableToolsLines}
    \cup {<<>>, line_body}

InitAgent ==
    /\ tool \in Tools
    /\ stype = "Agent"
    /\ bundle = <<"b">>
    /\ name = <<"n">>
    /\ srcFile \in IF tool \in {"Claude", "OpenCode"} THEN AgentContents ELSE LayoutContents
    /\ destPath = <<>>
    /\ destFile = <<>>
    /\ via = "none"
    /\ format = "none"
    /\ pc = "ready"
    /\ gen = 0
    /\ sourceDir = NoDir
    /\ companions = {}
    /\ NoCommand

SpecAgent == InitAgent /\ [][Next]_vars

\* the capability table as the specification gives it; a name without a row
\* keeps its own spelling
ExpectedCapability(t) ==
    CASE t \in {str_Read, str_read, str_NotebookRead} -> str_read
      [] t \in {str_Write, str_write} -> str_write
      [] t \in {str_Edit, str_edit, str_MultiEdit, str_NotebookEdit} -> str_edit
      [] t \in {str_Grep, str_grep} -> str_grep
      [] t \in {str_Glob, str_glob} -> str_glob
      [] t \in {str_Bash, str_bash, str_LS, str_Task, str_KillBash, str_BashOutput} -> str_bash
      [] t \in {str_WebSearch, str_websearch} -> str_websearch
      [] t \in {str_WebFetch, str_webfetch} -> str_webfetch
      [] t \in {str_TodoWrite, str_todowrite} -> str_todowrite
      [] t \in {str_TodoRead, str_todoread} -> str_todoread
      [] t \in {str_AskUserQuestion, str_question} -> str_question
      [] OTHER -> t

\* the inverse table for the entries that occur
ExpectedClaudeName(t) ==
    CASE t = str_read -> str_Read
      [] t = str_write -> str_Write
      [] t = str_bash -> str_Bash
      [] OTHER -> t

EntryLine(c) == <<" ", " ">> \o c \o str_colon_true

IsEnabledEntry(l) == starts_with(l, <<" ">>) /\ Len(l) >= 6 /\ SubSeq(l, Len(l) - 5, Len(l)) = str_colon_true

IsDisabledEntry(l) == starts_with(l, <<" ">>) /\ Len(l) >= 7 /\ SubSeq(l, Len(l) - 6, Len(l)) = str_colon_false

EntryName(l) == trim(split(l, ":")[1])

\* the items of a `tools: t1, ..., tk` line
ListItems(l) == [k \in DOMAIN split(SubSeq(l, 7, Len(l)), ",") |-> trim(split(SubSeq(l, 7, Len(l)), ",")[k])]

OneEntryPerCapability ==
    (/\ pc = "written"
     /\ via = "transform_agent_file"
     /\ \A i \in DOMAIN FrontmatterOf(srcFile) : ~starts_with(FrontmatterOf(srcFile)[i], <<" ">>)) =>
        LET out == FrontmatterOf(destFile)
        IN  \A j, k \in DOMAIN out : (j # k /\ IsEnabledEntry(out[j])) => out[j] # out[k]

\* C8: transform_agent_for_claude turns a bare `tools:` line with nested
\* `name: true|false` entries into the one line `tools: X1, ..., Xm` that
\* lists, in source order, the inverse-table images of exactly the entries
\* set to true (no `tools:` line when none is); no entry set to false shows
\* up in the output
ToolsBlockToList ==
    (/\ pc = "written"
     /\ via = "transform_agent_for_claude"
     /\ \E i \in DOMAIN FrontmatterOf(srcFile) : FrontmatterOf(srcFile)[i] = str_tools_colon) =>
        LET fm == FrontmatterOf(srcFile)
            at == CHOOSE i \in DOMAIN fm : fm[i] = str_tools_colon /\ \A j \in 1..(i - 1) : fm[j] # str_tools_colon
            last == CHOOSE e \in at..Len(fm) :
                        /\ \A j \in (at + 1)..e : starts_with(fm[j], <<" ">>)
                        /\ (e < Len(fm) => ~starts_with(fm[e + 1], <<" ">>))
            block == SubSeq(fm, at + 1, last)
            enabled == SelectSeq(block, IsEnabledEntry)
            disabled == SelectSeq(block, IsDisabledEntry)
            names == [k \in DOMAIN enabled |-> ExpectedClaudeName(EntryName(enabled[k]))]
            out == lines_of(destFile)
        IN  /\ FieldLines(destFile, str_tools_colon) =
                  IF names = <<>> THEN <<>> ELSE <<str_tools_prefix \o join(names, str_comma_space)>>
            /\ \A d \in DOMAIN disabled : \A j \in DOMAIN out :
                  /\ ~contains(out[j], EntryName(disabled[d]))
                  /\ ~contains(out[j], ExpectedClaudeName(EntryName(disabled[d])))

MaxText == 203

Ascii(n) == [i \in 1..n |-> "A"]

\* one two-byte character as the first character
WideFirst(n) == [i \in 1..n |-> IF i = 1 THEN chr_e_acute ELSE "A"]

\* two-byte characters only
AllWide(n) == [i \in 1..n |-> chr_e_acute]

\* one-line files without frontmatter: the line is the description text
Texts == {Ascii(n) : n \in 1..MaxText} \cup {WideFirst(n) : n \in 1..MaxText} \cup {AllWide(n) : n \in 1..MaxText}

InitTrunc ==
    /\ tool \in Tools
    /\ stype = "Skill"
    /\ bundle = <<"b">>
    /\ name = <<"n">>
    /\ srcFile \in Texts
    /\ destPath = <<>>
    /\ destFile = <<>>
    /\ via = "none"
    /\ format = "none"
    /\ pc = "ready"
    /\ gen = 0
    /\ sourceDir = NoDir
    /\ companions = {}
    /\ NoCommand

SpecTrunc == InitTrunc /\ [][Next]_vars

\* C10: a description text of more than 200 characters is synthesized as its
\* first 197 characters followed by `...` (200 characters in all); a text of
\* at most 200 characters is synthesized unchanged
DescriptionTruncated ==
    (pc # "ready" /\ gen = 0) =>
        /\ pc = "written"
        /\ FieldLines(destFile, str_description_colon) =
              <<str_description_open
                \o (IF Len(srcFile) > 200 THEN SubSeq(srcFile, 1, 197) \o str_ellipsis ELSE srcFile)
                \o <<"\"">>>>

(***************************************************************************)
(* Properties of description synthesis and of the prepended frontmatter    *)
(***************************************************************************)
\* the body of a file as a reader sees it: every line when the first line
\* is not "---", else the lines after the closing "---" (none when the
\* frontmatter is never closed)
BodyOf(content) ==
    LET ls == lines_of(content)
        closing == {j \in 2..Len(ls) : ls[j] = str_delim}
    IN  IF ~HasFrontmatter(content) THEN ls
        ELSE IF closing = {} THEN <<>>
        ELSE SubSeq(ls, (CHOOSE j \in closing : \A k \in closing : j <= k) + 1, Len(ls))

\* the description the body calls for: the first line that is neither blank
\* nor "---", without its leading # characters and surrounding whitespace
ExpectedDescription(content) ==
    LET body == BodyOf(content)
        cand == {i \in DOMAIN body : trim(body[i]) # <<>> /\ trim(body[i]) # <<"-", "-", "-">>}
        first == CHOOSE i \in cand : \A j \in cand : i <= j
    IN  IF cand = {} THEN <<"S", "k", "i", "l", "l", " ", "i", "n", "s", "t", "r", "u", "c", "t", "i", "o", "n", "s">>
        ELSE trim(trim_start_matches(trim(body[first]), <<"#">>))

\* C11 as stated: when the source has no `description:` field, the file
\* written has the description taken from the first body line (after the
\* frontmatter, if any) that is neither blank nor "---", a heading without
\* its leading # characters, or `Skill instructions` when there is no such
\* line
DescriptionFromBody ==
    (pc \in {"written", "failed"} /\ via = "transform_skill_file" /\ gen = 0
     /\ FieldLines(srcFile, str_description_colon) = <<>>)
    => /\ pc = "written"
       /\ FieldLines(destFile, str_description_colon)
            = << <<"d", "e", "s", "c", "r", "i", "p", "t", "i", "o", "n", ":", " ", "\"">>
                 \o ExpectedDescription(srcFile) \o <<"\"">> >>

\* the frontmatter block transform_skill_file puts before a source without
\* frontmatter, for the artifact n of the bundle b
SynthesizedBlock(desc) ==
    <<"-", "-", "-", "\n">>
    \o <<"n", "a", "m", "e", ":", " ", "b", "-", "n", "\n">>
    \o <<"d", "e", "s", "c", "r", "i", "p", "t", "i", "o", "n", ":", " ", "\"">> \o desc \o <<"\"", "\n">>
    \o <<"-", "-", "-", "\n">>

\* C12: when the first line of the source is not "---", the file written
\* is a synthesized frontmatter block immediately followed by the source,
\* byte for byte
SourceFollowsSynthesizedBlock ==
    (pc = "written" /\ via = "transform_skill_file" /\ gen = 0 /\ ~HasFrontmatter(srcFile))
    => destFile = SynthesizedBlock(ExpectedDescription(srcFile)) \o srcFile

\* a CRLF source without frontmatter was written after the synthesized block
CrlfSourceFollowsBlock ==
    /\ pc = "written"
    /\ via = "transform_skill_file"
    /\ gen = 0
    /\ srcFile = <<"#", " ", "T", "\r", "\n", "\r", "\n", "p", "\r", "\n">>
    /\ destFile = SynthesizedBlock(<<"T">>) \o srcFile

(***************************************************************************)
(* Folder-sourced artifacts                                                *)
(***************************************************************************)
\* the directory lib of a source folder: absent, or present with any of
\* x.py, meta.yaml and a subdirectory sub that is empty or holds y
LibDirs ==
    {Folder({}, {})}
    \cup {Folder(fs \cup ys, {<<"lib">>} \cup ds) :
            fs \in SUBSET {<<"lib", "x.py">>, <<"lib", "meta.yaml">>},
            ds \in SUBSET {<<"lib", "sub">>},
            ys \in SUBSET {<<"lib", "sub", "y">>}}

\* source folders of an artifact of type st: the primary file, any of
\* meta.yaml, run.sh and a file whose name is not Unicode, and lib
Folders(st) ==
    {Folder({main_file(st)} \cup top \cup lib.files, lib.dirs) :
        top \in SUBSET {<<str_meta_yaml>>, <<"run.sh">>, <<name_not_unicode>>},
        lib \in {l \in LibDirs : \A f \in l.files : Len(f) = 3 => <<"lib", "sub">> \in l.dirs}}

InitCompanion ==
    /\ tool \in Tools
    /\ stype \in SkillTypes
    /\ bundle = <<"b">>
    /\ name = <<"n">>
    /\ srcFile \in {<<>>, Render(<<line_heading>>, <<"\n">>, TRUE)}
    /\ destPath = <<>>
    /\ destFile = <<>>
    /\ via = "none"
    /\ format = "none"
    /\ pc = "ready"
    /\ gen = 0
    /\ sourceDir \in {NoDir} \cup Folders(stype)
    /\ companions = {}
    /\ NoCommand

SpecCompanion == InitCompanion /\ [][Next]_vars

\* the entries of a source folder
EntriesOf(folder) ==
    {[path |-> p, kind |-> "file"] : p \in folder.files} \cup {[path |-> p, kind |-> "dir"] : p \in folder.dirs}

\* C13 as stated: after a folder-sourced Skill or Rule is written, every
\* entry of the source folder other than the primary file and meta.yaml
\* exists in the destination folder at the same relative path,
\* subdirectories included; an artifact without source folder is written
\* and gets no companions
CompanionsPropagated ==
    (pc # "ready" /\ gen = 0 /\ stype \in {"Skill", "Rule"}) =>
        IF sourceDir = NoDir THEN pc = "written" /\ companions = {}
        ELSE pc = "written" =>
                \A e \in EntriesOf(sourceDir) :
                    (e.path # main_file(stype) /\ e.path # <<"meta.yaml">>) => e \in companions

MaxFiles == 3

\* Tool::write_file on a source file; reading a file that cannot be read
\* returns Err
write_file(t, target_dir, bundle_name, st, skill_name, content, readable) ==
    IF ~readable THEN Written(<<>>, Panic, "none", "none")
    ELSE CASE t = "Claude" -> write_claude_file(target_dir, bundle_name, st, skill_name, content, TRUE)
           [] t = "OpenCode" -> write_opencode_file(target_dir, bundle_name, st, skill_name, content, TRUE)
           [] t = "Cursor" -> write_cursor_file(target_dir, bundle_name, st, skill_name, content, TRUE)
           [] t = "Codex" -> write_codex_file(target_dir, bundle_name, st, skill_name, content, TRUE)

\* bundle.files_of_type(skill_type): up to MaxFiles skills a, b, c, ... each
\* readable or not
FileNames == <<"a", "b", "c", "d", "e">>

FileLists ==
    UNION {{[i \in 1..n |-> [name |-> <<FileNames[i]>>, readable |-> r[i]]] : r \in [1..n -> BOOLEAN]} : n \in 0..MaxFiles}

InitInstall ==
    /\ tool \in Tools
    /\ stype = "Skill"
    /\ bundle = <<"b">>
    /\ name = <<"n">>
    /\ srcFile = Render(<<line_heading>>, <<"\n">>, TRUE)
    /\ destPath = <<>>
    /\ destFile = <<>>
    /\ via = "none"
    /\ format = "none"
    /\ pc = "ready"
    /\ gen = 0
    /\ sourceDir = NoDir
    /\ companions = {}
    /\ \E c \in {"install_bundle", "install_from_source", "refresh_installed_skills"}, fs \in FileLists :
          install = [cmd |-> c, files |-> fs, attempted |-> {}, written |-> {}, count |-> 0, errors |-> 0,
                     status |-> "running"]
    /\ sources = <<>>
    /\ root = NoRoot
    /\ outcome = NoOutcome
    /\ base = NoBase
    /\ manifest = NoManifest

\* the file the loop is at
current_file == install.files[Cardinality(install.attempted) + 1]

\* one turn of `for file in files { tool.write_file(..)?; count += 1; }`:
\* the ? returns the Err from the command
write_or_return ==
    \E file \in {current_file} :
        \E w \in {write_file(tool, TargetDir, bundle, stype, file.name, srcFile, file.readable)} :
            install' = IF w.res.ok
                       THEN [install EXCEPT !.attempted = @ \cup {file.name}, !.written = @ \cup {w.path},
                                            !.count = @ + 1]
                       ELSE [install EXCEPT !.attempted = @ \cup {file.name}, !.status = "Err"]

\* one turn of the loop of refresh_installed_skills: Ok counts the file,
\* Err counts an error and the loop goes on
write_or_tally ==
    \E file \in {current_file} :
        \E w \in {write_file(tool, TargetDir, bundle, stype, file.name, srcFile, file.readable)} :
            install' = IF w.res.ok
                       THEN [install EXCEPT !.attempted = @ \cup {file.name}, !.written = @ \cup {w.path},
                                            !.count = @ + 1]
                       ELSE [install EXCEPT !.attempted = @ \cup {file.name}, !.errors = @ + 1]

install_bundle ==
    /\ install.cmd = "install_bundle"
    /\ install.status = "running"
    /\ Cardinality(install.attempted) < Len(install.files)
    /\ write_or_return
    /\ UNCHANGED <<writeVars, sources, root, outcome, base, manifest>>

install_from_source ==
    /\ install.cmd = "install_from_source"
    /\ install.status = "running"
    /\ Cardinality(install.attempted) < Len(install.files)
    /\ write_or_return
    /\ UNCHANGED <<writeVars, sources, root, outcome, base, manifest>>

refresh_installed_skills ==
    /\ install.cmd = "refresh_installed_skills"
    /\ install.status = "running"
    /\ Cardinality(install.attempted) < Len(install.files)
    /\ write_or_tally
    /\ UNCHANGED <<writeVars, sources, root, outcome, base, manifest>>

\* the loop is over: the command returns Ok(())
install_return ==
    /\ install.status = "running"
    /\ Cardinality(install.attempted) = Len(install.files)
    /\ install' = [install EXCEPT !.status = "Ok"]
    /\ UNCHANGED <<writeVars, sources, root, outcome, base, manifest>>

NextInstall == install_bundle \/ install_from_source \/ refresh_installed_skills \/ install_return

SpecInstall == InitInstall /\ [][NextInstall]_vars

\* C15 as stated: when write_file fails for one artifact of an install,
\* write_file is still attempted for every other artifact of that install
\* and the command tallies the failure and does not abort
FailureIsolatedPerArtifact ==
    install.status \in {"Ok", "Err"} =>
        /\ install.status = "Ok"
        /\ install.attempted = {install.files[i].name : i \in DOMAIN install.files}
        /\ install.count = Cardinality({i \in DOMAIN install.files : install.files[i].readable})
        /\ install.errors = Cardinality({i \in DOMAIN install.files : ~install.files[i].readable})

(***************************************************************************)
(* Operations over the configured sources                                  *)
(***************************************************************************)
MaxSources == 3

\* what Source::list_bundles of a configured source returns: Err, or Ok with
\* the names of its bundles, sorted
ListErr == [ok |-> FALSE, bundles |-> <<>>]

ListOk(names) == [ok |-> TRUE, bundles |-> names]

name_b == <<"b">>

name_b_x == <<"b", "-", "x">>

name_c == <<"c">>

SourceResults == {ListErr, ListOk(<<>>), ListOk(<<name_b>>), ListOk(<<name_b, name_b_x>>), ListOk(<<name_c>>)}

RECURSIVE listed_until_error(_)
\* a listing that returns at the first source that fails
listed_until_error(srcs) ==
    IF srcs = <<>> THEN <<>>
    ELSE IF ~Head(srcs).ok THEN <<>>
    ELSE Head(srcs).bundles \o listed_until_error(Tail(srcs))

RECURSIVE listed(_)
\* the loop of list_bundles (main.rs): a source that fails is warned about
\* and skipped, the bundles of the others are printed in order
listed(srcs) ==
    IF srcs = <<>> THEN <<>>
    ELSE IF ~Head(srcs).ok THEN listed(Tail(srcs))
    ELSE Head(srcs).bundles \o listed(Tail(srcs))

RECURSIVE find_bundle_from(_, _, _)
\* the loop of Config::find_bundle from source i on: Some((source, bundle))
\* as [found, source], None as [found |-> <<>>, source |-> 0]
find_bundle_from(srcs, i, bundle_name) ==
    IF i > Len(srcs) THEN [found |-> <<>>, source |-> 0]
    ELSE IF ~srcs[i].ok THEN find_bundle_from(srcs, i + 1, bundle_name)
    ELSE IF \E k \in DOMAIN srcs[i].bundles : srcs[i].bundles[k] = bundle_name
         THEN [found |-> bundle_name, source |-> i]
         ELSE find_bundle_from(srcs, i + 1, bundle_name)

RECURSIVE best_prefix_in(_, _, _)
\* the inner loop of find_bundle_by_prefix over the bundles of one source
best_prefix_in(names, installed_name, best) ==
    IF names = <<>> THEN best
    ELSE IF starts_with(installed_name, Head(names) \o <<"-">>) /\ Len(Head(names)) > Len(best.found)
         THEN best_prefix_in(Tail(names), installed_name, [found |-> Head(names), source |-> best.source])
         ELSE best_prefix_in(Tail(names), installed_name, best)

RECURSIVE find_bundle_by_prefix_from(_, _, _, _)
\* the loop of Config::find_bundle_by_prefix from source i on
find_bundle_by_prefix_from(srcs, i, installed_name, best) ==
    IF i > Len(srcs) THEN best
    ELSE IF ~srcs[i].ok THEN find_bundle_by_prefix_from(srcs, i + 1, installed_name, best)
    ELSE find_bundle_by_prefix_from(srcs, i + 1, installed_name,
                                    best_prefix_in(srcs[i].bundles, installed_name, [found |-> best.found, source |-> i]))

InitSources ==
    /\ tool = "Claude"
    /\ stype = "Skill"
    /\ bundle = <<"b">>
    /\ name = <<"n">>
    /\ srcFile = <<>>
    /\ destPath = <<>>
    /\ destFile = <<>>
    /\ via = "none"
    /\ format = "none"
    /\ pc = "ready"
    /\ gen = 0
    /\ sourceDir = NoDir
    /\ companions = {}
    /\ install = NoInstall
    /\ sources \in SeqsUpTo(SourceResults, MaxSources)
    /\ root = NoRoot
    /\ outcome = NoOutcome
    /\ base = NoBase
    /\ manifest = NoManifest

\* list_bundles (main.rs): always Ok(())
list_bundles ==
    /\ outcome.op = "none"
    /\ outcome' = [op |-> "list_bundles", ok |-> TRUE, bundles |-> listed(sources), found |-> <<>>, source |-> 0]
    /\ UNCHANGED <<writeVars, install, sources, root, base, manifest>>

find_bundle ==
    /\ outcome.op = "none"
    /\ \E bundle_name \in {name_b, name_b_x, name_c} :
          outcome' = [op |-> "find_bundle", ok |-> TRUE, bundles |-> <<bundle_name>>,
                      found |-> find_bundle_from(sources, 1, bundle_name).found,
                      source |-> find_bundle_from(sources, 1, bundle_name).source]
    /\ UNCHANGED <<writeVars, install, sources, root, base, manifest>>

find_bundle_by_prefix ==
    /\ outcome.op = "none"
    /\ \E installed_name \in {name_b \o <<"-", "n">>, name_b_x \o <<"-", "n">>, name_c \o <<"-", "n">>,
                                 <<"-", "n">>, name_b, name_b \o <<"x", "-", "n">>} :
          outcome' = [op |-> "find_bundle_by_prefix", ok |-> TRUE, bundles |-> <<installed_name>>,
                      found |-> find_bundle_by_prefix_from(sources, 1, installed_name, [found |-> <<>>, source |-> 0]).found,
                      source |-> 0]
    /\ UNCHANGED <<writeVars, install, sources, root, base, manifest>>

NextSources == list_bundles \/ find_bundle \/ find_bundle_by_prefix

SpecSources == InitSources /\ [][NextSources]_vars

\* the bundles of the sources that did not fail, source by source
BundlesOfSource(i) == {sources[i].bundles[k] : k \in DOMAIN sources[i].bundles}

\* C16: a source whose list_bundles fails does not stop the operation: it
\* returns Ok, the bundles of every source after the failed one are listed,
\* a lookup by name finds the bundle in the first source that lists it, and
\* a lookup by prefix finds the longest bundle name that is a prefix of the
\* installed name, wherever a failed source stands in the order
ContinuesPastFailedSource ==
    /\ outcome.ok
    /\ outcome.op = "list_bundles" =>
          \A i \in DOMAIN sources : sources[i].ok =>
              \A b \in BundlesOfSource(i) : \E k \in DOMAIN outcome.bundles : outcome.bundles[k] = b
    /\ outcome.op = "find_bundle" =>
          LET q == outcome.bundles[1]
              holders == {i \in DOMAIN sources : sources[i].ok /\ q \in BundlesOfSource(i)}
          IN  IF holders = {} THEN outcome.found = <<>>
              ELSE outcome.found = q /\ outcome.source \in holders /\ \A i \in holders : outcome.source <= i
    /\ outcome.op = "find_bundle_by_prefix" =>
          LET q == outcome.bundles[1]
              cands == {b \in UNION {BundlesOfSource(i) : i \in {j \in DOMAIN sources : sources[j].ok}} :
                          Len(q) > Len(b) /\ SubSeq(q, 1, Len(b) + 1) = b \o <<"-">>}
          IN  IF cands = {} THEN outcome.found = <<>>
              ELSE outcome.found \in cands /\ \A b \in cands : Len(b) <= Len(outcome.found)

\* with the first source failing, the bundle b-x of the third source was
\* listed
ListedAfterFailedSource ==
    /\ outcome.op = "list_bundles"
    /\ Len(sources) = 3
    /\ ~sources[1].ok
    /\ sources[3] = ListOk(<<name_b, name_b_x>>)
    /\ outcome.ok
    /\ \E k \in DOMAIN outcome.bundles : outcome.bundles[k] = name_b_x

(***************************************************************************)
(* A source root on disk                                                   *)
(***************************************************************************)
\* A source root is a record: the paths of its files and of its
\* directories (a path is the sequence of names below the root, a name a
\* sequence of characters), the directories whose listing fails, the name
\* each meta.yaml or SKILL.md frontmatter declares, the bundles an skm.toml
\* at the root declares, and the order in which read_dir yields entries.

\* the characters of names in byte order
Alphabet ==
    <<"-", ".", "0", "1", "2", "3", "4", "5", "6", "7", "8", "9", "A", "B", "C", "D", "E", "F", "G", "H", "I", "J", "K", "L", "M", "N", "O", "P", "Q", "R", "S", "T", "U", "V", "W", "X", "Y", "Z", "_", "a", "b", "c", "d", "e", "f", "g", "h", "i", "j", "k", "l", "m", "n", "o", "p", "q", "r", "s", "t", "u", "v", "w", "x", "y", "z">>

char_rank(c) == CHOOSE i \in DOMAIN Alphabet : Alphabet[i] = c

RECURSIVE str_lt(_, _)
\* a < b for str: byte-wise lexicographic
str_lt(a, b) ==
    IF b = <<>> THEN FALSE
    ELSE IF a = <<>> THEN TRUE
    ELSE IF Head(a) = Head(b) THEN str_lt(Tail(a), Tail(b))
    ELSE char_rank(Head(a)) < char_rank(Head(b))

RECURSIVE insert_by_name(_, _)
\* x goes after every element whose name is not greater: the sort is stable
insert_by_name(sorted, x) ==
    IF sorted = <<>> THEN <<x>>
    ELSE IF str_lt(x.name, Head(sorted).name) THEN <<x>> \o sorted
    ELSE <<Head(sorted)>> \o insert_by_name(Tail(sorted), x)

\* the list left in the order the entries were pushed
in_pushed_order(v) == v

RECURSIVE sort_by_name(_)
\* v.sort_by(|a, b| a.name.cmp(&b.name))
sort_by_name(v) ==
    IF v = <<>> THEN <<>>
    ELSE insert_by_name(sort_by_name(SubSeq(v, 1, Len(v) - 1)), v[Len(v)])

\* Path::exists, Path::is_dir, Path::is_file
path_exists(r, p) == p = <<>> \/ p \in r.files \/ p \in r.dirs

path_is_dir(r, p) == p = <<>> \/ p \in r.dirs

path_is_file(r, p) == p \in r.files

\* the entries directly below p
entries_of(r, p) == {q \in r.files \cup r.dirs : Len(q) = Len(p) + 1 /\ SubSeq(q, 1, Len(p)) = p}

RECURSIVE enumerate(_, _)
\* the entries in the order the directory yields them: ascending or
\* descending by name
enumerate(qs, descending) ==
    IF qs = {} THEN <<>>
    ELSE LET q == CHOOSE x \in qs : \A y \in qs \ {x} :
                      IF descending THEN str_lt(y[Len(y)], x[Len(x)]) ELSE str_lt(x[Len(x)], y[Len(y)])
         IN  <<q>> \o enumerate(qs \ {q}, descending)

\* std::fs::read_dir(p): Err for a directory that cannot be listed
read_dir_ok(r, p) == path_is_dir(r, p) /\ p \notin r.unreadable

read_dir_entries(r, p) == enumerate(entries_of(r, p), r.descending)

\* Path::extension: the part after the last dot of the file name, none
\* when the only dot is the first character
extension(file) ==
    LET dots == {i \in 2..Len(file) : file[i] = "."}
    IN  IF dots = {} THEN <<>>
        ELSE SubSeq(file, (CHOOSE i \in dots : \A j \in dots : j <= i) + 1, Len(file))

\* Path::file_stem
file_stem(file) ==
    LET dots == {i \in 2..Len(file) : file[i] = "."}
    IN  IF dots = {} THEN file
        ELSE SubSeq(file, 1, (CHOOSE i \in dots : \A j \in dots : j <= i) - 1)

\* SkillType::dir_name
dir_name(st) ==
    CASE st = "Skill" -> <<"s", "k", "i", "l", "l", "s">>
      [] st = "Agent" -> <<"a", "g", "e", "n", "t", "s">>
      [] st = "Command" -> <<"c", "o", "m", "m", "a", "n", "d", "s">>
      [] st = "Rule" -> <<"r", "u", "l", "e", "s">>

\* SkillType::alt_dir_names
alt_dir_names(st) == IF st = "Rule" THEN <<<<"c", "u", "r", "s", "o", "r", "-", "r", "u", "l", "e", "s">>>> ELSE <<>>

ext_md == <<"m", "d">>

nm_SKILL_md == <<"S", "K", "I", "L", "L", ".", "m", "d">>

nm_meta_yaml == <<"m", "e", "t", "a", ".", "y", "a", "m", "l">>

nm_resources == <<"r", "e", "s", "o", "u", "r", "c", "e", "s">>

nm_shell == <<"s", "h", "e", "l", "l">>

\* the SkillFile and Bundle structs
SkillFile(skill_name, path, st) == [name |-> skill_name, path |-> path, skill_type |-> st]

Bundle(bundle_name, path, skills, agents, commands, rules) ==
    [name |-> bundle_name, path |-> path, skills |-> skills, agents |-> agents, commands |-> commands, rules |-> rules]

\* a bundle that is never taken for empty
never_empty(b) == FALSE

\* Bundle::is_empty
is_empty(b) == b.skills = <<>> /\ b.agents = <<>> /\ b.commands = <<>> /\ b.rules = <<>>

\* a Result: Err, or Ok with a value
Err == [ok |-> FALSE, val |-> <<>>]

Ok(v) == [ok |-> TRUE, val |-> v]

(***************************************************************************)
(* Discovery: flat and resources formats                                   *)
(***************************************************************************)
\* the elements of a sequence of sequences, in order
RECURSIVE flatten(_)
flatten(ss) == IF ss = <<>> THEN <<>> ELSE Head(ss) \o flatten(Tail(ss))

last_name(p) == p[Len(p)]

\* Bundle::scan_type: the .md files directly in the type directory
scan_type(r, bundle_path, st) ==
    LET type_dir == bundle_path \o <<dir_name(st)>>
        found == SelectSeq(read_dir_entries(r, type_dir),
                           LAMBDA p : path_is_file(r, p) /\ extension(last_name(p)) = ext_md)
    IN  IF ~path_exists(r, type_dir) THEN Ok(<<>>)
        ELSE IF ~read_dir_ok(r, type_dir) THEN Err
        ELSE Ok(sort_by_name([i \in DOMAIN found |-> SkillFile(file_stem(last_name(found[i])), found[i], st)]))

\* Bundle::from_path: each scan_type(..)? returns its Err
from_path(r, path) ==
    LET skills == scan_type(r, path, "Skill")
        agents == scan_type(r, path, "Agent")
        commands == scan_type(r, path, "Command")
        rules == scan_type(r, path, "Rule")
    IN  IF ~(skills.ok /\ agents.ok /\ commands.ok /\ rules.ok) THEN Err
        ELSE Ok(Bundle(last_name(path), path, skills.val, agents.val, commands.val, rules.val))

\* the directories of the root that the flat loop takes for bundles
flat_candidates(r) ==
    SelectSeq(read_dir_entries(r, <<>>),
              LAMBDA p : path_is_dir(r, p) /\ ~starts_with(last_name(p), <<".">>) /\ last_name(p) # nm_shell)

\* the loop of LocalSource::list_bundles over the root: a directory whose
\* Bundle::from_path fails or is empty is passed over
list_flat(r) ==
    LET made == [i \in DOMAIN flat_candidates(r) |-> from_path(r, flat_candidates(r)[i])]
        kept == SelectSeq(made, LAMBDA b : b.ok /\ ~is_empty(b.val))
    IN  IF ~read_dir_ok(r, <<>>) THEN Err
        ELSE Ok(sort_by_name([i \in DOMAIN kept |-> kept[i].val]))

\* Bundle::load_meta_yaml(dir).name: the name meta.yaml declares, <<>> for
\* None
meta_name(r, dir) ==
    LET file == dir \o <<nm_meta_yaml>>
        decl == {m \in r.named : m.path = file}
    IN  IF path_exists(r, file) /\ decl # {} THEN (CHOOSE m \in decl : TRUE).name ELSE <<>>

expected_names(st) ==
    CASE st = "Skill" -> <<<<"s", "k", "i", "l", "l", ".", "m", "d">>, nm_SKILL_md>>
      [] st = "Agent" -> <<<<"a", "g", "e", "n", "t", ".", "m", "d">>, <<"A", "G", "E", "N", "T", ".", "m", "d">>>>
      [] st = "Command" -> <<<<"c", "o", "m", "m", "a", "n", "d", ".", "m", "d">>, <<"C", "O", "M", "M", "A", "N", "D", ".", "m", "d">>>>
      [] st = "Rule" -> <<<<"r", "u", "l", "e", ".", "m", "d">>, <<"R", "U", "L", "E", ".", "m", "d">>>>

\* Bundle::scan_resource_folder_with_meta: Err, Ok(None) as Ok(<<>>), or
\* Ok(Some(file)) as Ok(<<file>>)
scan_resource_folder_with_meta(r, resource_dir, st, folder_name) ==
    LET resolved == IF meta_name(r, resource_dir) # <<>> THEN meta_name(r, resource_dir) ELSE folder_name
        expected == SelectSeq(expected_names(st), LAMBDA e : path_exists(r, resource_dir \o <<e>>))
        any_md == SelectSeq(read_dir_entries(r, resource_dir),
                            LAMBDA p : path_is_file(r, p) /\ extension(last_name(p)) = ext_md)
    IN  IF expected # <<>> THEN Ok(<<SkillFile(resolved, resource_dir \o <<expected[1]>>, st)>>)
        ELSE IF ~read_dir_ok(r, resource_dir) THEN Err
        ELSE IF any_md # <<>> THEN Ok(<<SkillFile(resolved, any_md[1], st)>>)
        ELSE Ok(<<>>)

\* the `// Skip templates and hidden` test of a resource folder name
resource_folder_taken(folder_name) ==
    ~(starts_with(folder_name, <<".">>) \/ starts_with(folder_name, <<"_">>))

\* the type directories of resources/ in the order they are scanned, with
\* the type each stands for
resource_type_dirs ==
    flatten([i \in 1..4 |->
        LET st == <<"Skill", "Agent", "Command", "Rule">>[i]
            names == <<dir_name(st)>> \o alt_dir_names(st)
        IN  [k \in DOMAIN names |-> [dir |-> <<nm_resources, names[k]>>, st |-> st]]])

\* the resource folders in scan order, each with the result of its scan
resource_scans(r) ==
    flatten([i \in DOMAIN resource_type_dirs |->
        LET td == resource_type_dirs[i]
            folders == SelectSeq(read_dir_entries(r, td.dir),
                                 LAMBDA p : path_is_dir(r, p) /\ resource_folder_taken(last_name(p)))
        IN  IF ~path_exists(r, td.dir) THEN <<>>
            ELSE IF ~read_dir_ok(r, td.dir) THEN <<[dir |-> td.dir, res |-> Err]>>
            ELSE [k \in DOMAIN folders |->
                    [dir |-> folders[k],
                     res |-> scan_resource_folder_with_meta(r, folders[k], td.st, last_name(folders[k]))]]])

\* the bundle entry keyed by the folder path instead of the resolved name
bundle_key_folder(scan) == scan.dir

\* the key of bundles.entry(..): the resolved name of the resource
bundle_key(scan) == scan.res.val[1].name

\* Bundle::list_from_resources_path
list_from_resources_path(r) ==
    LET scans == resource_scans(r)
        hits == SelectSeq(scans, LAMBDA s : s.res.ok /\ s.res.val # <<>>)
        keys == {bundle_key(hits[i]) : i \in DOMAIN hits}
        of_key(k) == SelectSeq(hits, LAMBDA s : bundle_key(s) = k)
        of_type(k, st) == LET sel == SelectSeq(of_key(k), LAMBDA s : s.res.val[1].skill_type = st)
                          IN  [i \in DOMAIN sel |-> sel[i].res.val[1]]
        made(k) == Bundle(of_key(k)[1].res.val[1].name, of_key(k)[1].dir,
                          of_type(k, "Skill"), of_type(k, "Agent"), of_type(k, "Command"), of_type(k, "Rule"))
        first_at(k) == CHOOSE i \in DOMAIN hits : bundle_key(hits[i]) = k /\ \A j \in 1..(i - 1) : bundle_key(hits[j]) # k
        in_order == SelectSeq([i \in DOMAIN hits |-> [at |-> i, key |-> bundle_key(hits[i])]],
                              LAMBDA e : first_at(e.key) = e.at)
    IN  IF ~path_exists(r, <<nm_resources>>) THEN Ok(<<>>)
        ELSE IF \E i \in DOMAIN scans : ~scans[i].res.ok THEN Err
        ELSE Ok(sort_by_name([i \in DOMAIN in_order |-> made(in_order[i].key)]))

\* Bundle::is_resources_format
is_resources_format(r) == path_is_dir(r, <<nm_resources>>)

\* LocalSource::list_bundles
list_bundles_of(r) ==
    IF ~r.some THEN Ok(<<>>)
    ELSE IF is_resources_format(r) THEN list_from_resources_path(r)
    ELSE list_flat(r)

(***************************************************************************)
(* Discovery: marketplace format and manifest declarations                 *)
(***************************************************************************)
\* Bundle::extract_frontmatter(path).name: the name the frontmatter of the
\* file declares, <<>> for None
frontmatter_name(r, file) ==
    LET decl == {m \in r.named : m.path = file}
    IN  IF path_exists(r, file) /\ decl # {} THEN (CHOOSE m \in decl : TRUE).name ELSE <<>>

\* Bundle::is_anthropic_format
is_anthropic_format(r) ==
    /\ path_is_dir(r, <<dir_name("Skill")>>)
    /\ read_dir_ok(r, <<dir_name("Skill")>>)
    /\ \E p \in entries_of(r, <<dir_name("Skill")>>) : path_is_dir(r, p) /\ path_exists(r, p \o <<nm_SKILL_md>>)

\* Bundle::list_from_anthropic_path
list_from_anthropic_path(r) ==
    LET skills_dir == <<dir_name("Skill")>>
        taken == SelectSeq(read_dir_entries(r, skills_dir),
                           LAMBDA p : /\ path_is_dir(r, p)
                                      /\ ~(starts_with(last_name(p), <<".">>) \/ starts_with(last_name(p), <<"_">>))
                                      /\ path_exists(r, p \o <<nm_SKILL_md>>))
        resolved(p) == IF frontmatter_name(r, p \o <<nm_SKILL_md>>) # <<>>
                       THEN frontmatter_name(r, p \o <<nm_SKILL_md>>) ELSE last_name(p)
    IN  IF ~path_exists(r, skills_dir) THEN Ok(<<>>)
        ELSE IF ~read_dir_ok(r, skills_dir) THEN Err
        ELSE Ok(sort_by_name([i \in DOMAIN taken |->
                    Bundle(resolved(taken[i]), taken[i],
                           <<SkillFile(resolved(taken[i]), taken[i] \o <<nm_SKILL_md>>, "Skill")>>, <<>>, <<>>, <<>>)]))

nm_skm_toml == <<"s", "k", "m", ".", "t", "o", "m", "l">>

\* load_manifest: None, or Some with the declared bundles
load_manifest(r) == [some |-> path_exists(r, <<nm_skm_toml>>), bundles |-> r.declared]

\* SkillFile with the source_dir field of manifest.rs: None, or Some(folder)
SkillFileIn(skill_name, path, st, source_dir) ==
    [name |-> skill_name, path |-> path, skill_type |-> st, source_dir |-> source_dir]

NoSourceDir == [some |-> FALSE, path |-> <<>>]

SomeSourceDir(path) == [some |-> TRUE, path |-> path]

\* a scan that knows no canonical file name
no_expected_names(st) == <<>>

component_expected_names(st) ==
    CASE st = "Skill" -> <<nm_SKILL_md, <<"s", "k", "i", "l", "l", ".", "m", "d">>>>
      [] st = "Agent" -> <<<<"A", "G", "E", "N", "T", ".", "m", "d">>, <<"a", "g", "e", "n", "t", ".", "m", "d">>>>
      [] st = "Command" -> <<<<"C", "O", "M", "M", "A", "N", "D", ".", "m", "d">>, <<"c", "o", "m", "m", "a", "n", "d", ".", "m", "d">>>>
      [] st = "Rule" -> <<<<"R", "U", "L", "E", ".", "m", "d">>, <<"r", "u", "l", "e", ".", "m", "d">>>>

\* what one entry of a component directory yields: nothing or one file
component_entry(r, path, st) ==
    LET expected == SelectSeq(component_expected_names(st), LAMBDA e : path_exists(r, path \o <<e>>))
        any_md == SelectSeq(read_dir_entries(r, path),
                            LAMBDA p : path_is_file(r, p) /\ extension(last_name(p)) = ext_md)
    IN  IF path_is_file(r, path) /\ extension(last_name(path)) \in {ext_md, <<"m", "d", "c">>}
        THEN <<SkillFileIn(file_stem(last_name(path)), path, st, NoSourceDir)>>
        ELSE IF path_is_dir(r, path)
        THEN IF expected # <<>> THEN <<SkillFileIn(last_name(path), path \o <<expected[1]>>, st, SomeSourceDir(path))>>
             ELSE IF read_dir_ok(r, path) /\ any_md # <<>>
             THEN <<SkillFileIn(last_name(path), any_md[1], st, SomeSourceDir(path))>>
             ELSE <<>>
        ELSE <<>>

\* scan_component_dir
scan_component_dir(r, dir, st) ==
    IF ~path_exists(r, dir) THEN Ok(<<>>)
    ELSE IF ~read_dir_ok(r, dir) THEN Err
    ELSE Ok(sort_by_name(flatten([i \in DOMAIN read_dir_entries(r, dir) |->
                                    component_entry(r, read_dir_entries(r, dir)[i], st)])))

\* bundle_from_declaration, with the default component paths
bundle_from_declaration(r, decl) ==
    LET skills == scan_component_dir(r, decl.path \o <<dir_name("Skill")>>, "Skill")
        agents == scan_component_dir(r, decl.path \o <<dir_name("Agent")>>, "Agent")
        commands == scan_component_dir(r, decl.path \o <<dir_name("Command")>>, "Command")
        rules == scan_component_dir(r, decl.path \o <<dir_name("Rule")>>, "Rule")
    IN  IF ~(skills.ok /\ agents.ok /\ commands.ok /\ rules.ok) THEN Err
        ELSE Ok(Bundle(decl.name, decl.path, skills.val, agents.val, commands.val, rules.val))

(***************************************************************************)
(* Source roots                                                            *)
(***************************************************************************)
\* the most parts a source root is put together from
MaxParts == 2

\* the parts of a source root: each a few files with the directories above
\* them
Parts ==
    {
        \* a flat bundle b with a skill and an agent
        [files |-> {<<<<"b">>, <<"s", "k", "i", "l", "l", "s">>, <<"a", ".", "m", "d">>>>, <<<<"b">>, <<"a", "g", "e", "n", "t", "s">>, <<"z", ".", "m", "d">>>>, <<<<"b">>, <<"s", "k", "i", "l", "l", "s">>, <<"n", "o", "t", "e", "s", ".", "t", "x", "t">>>>},
         dirs |-> {<<<<"b">>>>, <<<<"b">>, <<"a", "g", "e", "n", "t", "s">>>>, <<<<"b">>, <<"s", "k", "i", "l", "l", "s">>>>},
         unreadable |-> {},
         named |-> {},
         declared |-> {}],
        \* a second skill in b whose name starts with _
        [files |-> {<<<<"b">>, <<"s", "k", "i", "l", "l", "s">>, <<"_", "d", ".", "m", "d">>>>},
         dirs |-> {<<<<"b">>>>, <<<<"b">>, <<"s", "k", "i", "l", "l", "s">>>>},
         unreadable |-> {},
         named |-> {},
         declared |-> {}],
        \* a command in b whose name starts with .
        [files |-> {<<<<"b">>, <<"c", "o", "m", "m", "a", "n", "d", "s">>, <<".", "e", ".", "m", "d">>>>},
         dirs |-> {<<<<"b">>>>, <<<<"b">>, <<"c", "o", "m", "m", "a", "n", "d", "s">>>>},
         unreadable |-> {},
         named |-> {},
         declared |-> {}],
        \* a flat bundle directory whose name starts with _
        [files |-> {<<<<"_", "t">>, <<"s", "k", "i", "l", "l", "s">>, <<"a", ".", "m", "d">>>>},
         dirs |-> {<<<<"_", "t">>>>, <<<<"_", "t">>, <<"s", "k", "i", "l", "l", "s">>>>},
         unreadable |-> {},
         named |-> {},
         declared |-> {}],
        \* a flat bundle directory whose name starts with .
        [files |-> {<<<<".", "h">>, <<"s", "k", "i", "l", "l", "s">>, <<"a", ".", "m", "d">>>>},
         dirs |-> {<<<<".", "h">>>>, <<<<".", "h">>, <<"s", "k", "i", "l", "l", "s">>>>},
         unreadable |-> {},
         named |-> {},
         declared |-> {}],
        \* a flat bundle u with a rule and an unreadable skills directory
        [files |-> {<<<<"u">>, <<"r", "u", "l", "e", "s">>, <<"r", ".", "m", "d">>>>, <<<<"u">>, <<"s", "k", "i", "l", "l", "s">>, <<"a", ".", "m", "d">>>>},
         dirs |-> {<<<<"u">>>>, <<<<"u">>, <<"r", "u", "l", "e", "s">>>>, <<<<"u">>, <<"s", "k", "i", "l", "l", "s">>>>},
         unreadable |-> {<<<<"u">>, <<"s", "k", "i", "l", "l", "s">>>>},
         named |-> {},
         declared |-> {}],
        \* a flat bundle a2 with two commands
        [files |-> {<<<<"a", "2">>, <<"c", "o", "m", "m", "a", "n", "d", "s">>, <<"y", ".", "m", "d">>>>, <<<<"a", "2">>, <<"c", "o", "m", "m", "a", "n", "d", "s">>, <<"x", ".", "m", "d">>>>},
         dirs |-> {<<<<"a", "2">>>>, <<<<"a", "2">>, <<"c", "o", "m", "m", "a", "n", "d", "s">>>>},
         unreadable |-> {},
         named |-> {},
         declared |-> {}],
        \* a directory that holds no artifact, and the shell directory
        [files |-> {<<<<"e">>, <<"n", "o", "t", "e", "s", ".", "t", "x", "t">>>>, <<<<"s", "h", "e", "l", "l">>, <<"s", "k", "i", "l", "l", "s">>, <<"a", ".", "m", "d">>>>},
         dirs |-> {<<<<"e">>>>, <<<<"s", "h", "e", "l", "l">>>>, <<<<"s", "h", "e", "l", "l">>, <<"s", "k", "i", "l", "l", "s">>>>},
         unreadable |-> {},
         named |-> {},
         declared |-> {}],
        \* a resource folder f1 with skill.md
        [files |-> {<<<<"r", "e", "s", "o", "u", "r", "c", "e", "s">>, <<"s", "k", "i", "l", "l", "s">>, <<"f", "1">>, <<"s", "k", "i", "l", "l", ".", "m", "d">>>>},
         dirs |-> {<<<<"r", "e", "s", "o", "u", "r", "c", "e", "s">>>>, <<<<"r", "e", "s", "o", "u", "r", "c", "e", "s">>, <<"s", "k", "i", "l", "l", "s">>>>, <<<<"r", "e", "s", "o", "u", "r", "c", "e", "s">>, <<"s", "k", "i", "l", "l", "s">>, <<"f", "1">>>>},
         unreadable |-> {},
         named |-> {},
         declared |-> {}],
        \* a skill folder f2 that meta.yaml names Foo
        [files |-> {<<<<"r", "e", "s", "o", "u", "r", "c", "e", "s">>, <<"s", "k", "i", "l", "l", "s">>, <<"f", "2">>, <<"x", ".", "m", "d">>>>, <<<<"r", "e", "s", "o", "u", "r", "c", "e", "s">>, <<"s", "k", "i", "l", "l", "s">>, <<"f", "2">>, <<"m", "e", "t", "a", ".", "y", "a", "m", "l">>>>},
         dirs |-> {<<<<"r", "e", "s", "o", "u", "r", "c", "e", "s">>>>, <<<<"r", "e", "s", "o", "u", "r", "c", "e", "s">>, <<"s", "k", "i", "l", "l", "s">>>>, <<<<"r", "e", "s", "o", "u", "r", "c", "e", "s">>, <<"s", "k", "i", "l", "l", "s">>, <<"f", "2">>>>},
         unreadable |-> {},
         named |-> {[path |-> <<<<"r", "e", "s", "o", "u", "r", "c", "e", "s">>, <<"s", "k", "i", "l", "l", "s">>, <<"f", "2">>, <<"m", "e", "t", "a", ".", "y", "a", "m", "l">>>>, name |-> <<"F", "o", "o">>]},
         declared |-> {}],
        \* a command folder f3 that meta.yaml names Foo
        [files |-> {<<<<"r", "e", "s", "o", "u", "r", "c", "e", "s">>, <<"c", "o", "m", "m", "a", "n", "d", "s">>, <<"f", "3">>, <<"c", "o", "m", "m", "a", "n", "d", ".", "m", "d">>>>, <<<<"r", "e", "s", "o", "u", "r", "c", "e", "s">>, <<"c", "o", "m", "m", "a", "n", "d", "s">>, <<"f", "3">>, <<"m", "e", "t", "a", ".", "y", "a", "m", "l">>>>},
         dirs |-> {<<<<"r", "e", "s", "o", "u", "r", "c", "e", "s">>>>, <<<<"r", "e", "s", "o", "u", "r", "c", "e", "s">>, <<"c", "o", "m", "m", "a", "n", "d", "s">>>>, <<<<"r", "e", "s", "o", "u", "r", "c", "e", "s">>, <<"c", "o", "m", "m", "a", "n", "d", "s">>, <<"f", "3">>>>},
         unreadable |-> {},
         named |-> {[path |-> <<<<"r", "e", "s", "o", "u", "r", "c", "e", "s">>, <<"c", "o", "m", "m", "a", "n", "d", "s">>, <<"f", "3">>, <<"m", "e", "t", "a", ".", "y", "a", "m", "l">>>>, name |-> <<"F", "o", "o">>]},
         declared |-> {}],
        \* a second skill folder that meta.yaml names Foo
        [files |-> {<<<<"r", "e", "s", "o", "u", "r", "c", "e", "s">>, <<"s", "k", "i", "l", "l", "s">>, <<"f", "4">>, <<"S", "K", "I", "L", "L", ".", "m", "d">>>>, <<<<"r", "e", "s", "o", "u", "r", "c", "e", "s">>, <<"s", "k", "i", "l", "l", "s">>, <<"f", "4">>, <<"m", "e", "t", "a", ".", "y", "a", "m", "l">>>>},
         dirs |-> {<<<<"r", "e", "s", "o", "u", "r", "c", "e", "s">>>>, <<<<"r", "e", "s", "o", "u", "r", "c", "e", "s">>, <<"s", "k", "i", "l", "l", "s">>>>, <<<<"r", "e", "s", "o", "u", "r", "c", "e", "s">>, <<"s", "k", "i", "l", "l", "s">>, <<"f", "4">>>>},
         unreadable |-> {},
         named |-> {[path |-> <<<<"r", "e", "s", "o", "u", "r", "c", "e", "s">>, <<"s", "k", "i", "l", "l", "s">>, <<"f", "4">>, <<"m", "e", "t", "a", ".", "y", "a", "m", "l">>>>, name |-> <<"F", "o", "o">>]},
         declared |-> {}],
        \* a command folder whose own name is Foo
        [files |-> {<<<<"r", "e", "s", "o", "u", "r", "c", "e", "s">>, <<"c", "o", "m", "m", "a", "n", "d", "s">>, <<"F", "o", "o">>, <<"g", "o", ".", "m", "d">>>>},
         dirs |-> {<<<<"r", "e", "s", "o", "u", "r", "c", "e", "s">>>>, <<<<"r", "e", "s", "o", "u", "r", "c", "e", "s">>, <<"c", "o", "m", "m", "a", "n", "d", "s">>>>, <<<<"r", "e", "s", "o", "u", "r", "c", "e", "s">>, <<"c", "o", "m", "m", "a", "n", "d", "s">>, <<"F", "o", "o">>>>},
         unreadable |-> {},
         named |-> {},
         declared |-> {}],
        \* a resource folder whose name starts with _
        [files |-> {<<<<"r", "e", "s", "o", "u", "r", "c", "e", "s">>, <<"s", "k", "i", "l", "l", "s">>, <<"_", "t">>, <<"s", "k", "i", "l", "l", ".", "m", "d">>>>},
         dirs |-> {<<<<"r", "e", "s", "o", "u", "r", "c", "e", "s">>>>, <<<<"r", "e", "s", "o", "u", "r", "c", "e", "s">>, <<"s", "k", "i", "l", "l", "s">>>>, <<<<"r", "e", "s", "o", "u", "r", "c", "e", "s">>, <<"s", "k", "i", "l", "l", "s">>, <<"_", "t">>>>},
         unreadable |-> {},
         named |-> {},
         declared |-> {}],
        \* a rule folder under the alternative directory
        [files |-> {<<<<"r", "e", "s", "o", "u", "r", "c", "e", "s">>, <<"c", "u", "r", "s", "o", "r", "-", "r", "u", "l", "e", "s">>, <<"r", "1">>, <<"r", "u", "l", "e", ".", "m", "d">>>>},
         dirs |-> {<<<<"r", "e", "s", "o", "u", "r", "c", "e", "s">>>>, <<<<"r", "e", "s", "o", "u", "r", "c", "e", "s">>, <<"c", "u", "r", "s", "o", "r", "-", "r", "u", "l", "e", "s">>>>, <<<<"r", "e", "s", "o", "u", "r", "c", "e", "s">>, <<"c", "u", "r", "s", "o", "r", "-", "r", "u", "l", "e", "s">>, <<"r", "1">>>>},
         unreadable |-> {},
         named |-> {},
         declared |-> {}],
        \* a resource folder without a markdown file
        [files |-> {<<<<"r", "e", "s", "o", "u", "r", "c", "e", "s">>, <<"a", "g", "e", "n", "t", "s">>, <<"f", "5">>, <<"n", "o", "t", "e", "s", ".", "t", "x", "t">>>>},
         dirs |-> {<<<<"r", "e", "s", "o", "u", "r", "c", "e", "s">>>>, <<<<"r", "e", "s", "o", "u", "r", "c", "e", "s">>, <<"a", "g", "e", "n", "t", "s">>>>, <<<<"r", "e", "s", "o", "u", "r", "c", "e", "s">>, <<"a", "g", "e", "n", "t", "s">>, <<"f", "5">>>>},
         unreadable |-> {},
         named |-> {},
         declared |-> {}],
        \* an unreadable type directory of resources
        [files |-> {},
         dirs |-> {<<<<"r", "e", "s", "o", "u", "r", "c", "e", "s">>>>, <<<<"r", "e", "s", "o", "u", "r", "c", "e", "s">>, <<"a", "g", "e", "n", "t", "s">>>>},
         unreadable |-> {<<<<"r", "e", "s", "o", "u", "r", "c", "e", "s">>, <<"a", "g", "e", "n", "t", "s">>>>},
         named |-> {},
         declared |-> {}],
        \* an unreadable resource folder
        [files |-> {<<<<"r", "e", "s", "o", "u", "r", "c", "e", "s">>, <<"r", "u", "l", "e", "s">>, <<"f", "6">>, <<"x", ".", "m", "d">>>>},
         dirs |-> {<<<<"r", "e", "s", "o", "u", "r", "c", "e", "s">>>>, <<<<"r", "e", "s", "o", "u", "r", "c", "e", "s">>, <<"r", "u", "l", "e", "s">>>>, <<<<"r", "e", "s", "o", "u", "r", "c", "e", "s">>, <<"r", "u", "l", "e", "s">>, <<"f", "6">>>>},
         unreadable |-> {<<<<"r", "e", "s", "o", "u", "r", "c", "e", "s">>, <<"r", "u", "l", "e", "s">>, <<"f", "6">>>>},
         named |-> {},
         declared |-> {}],
        \* a marketplace skill m1
        [files |-> {<<<<"s", "k", "i", "l", "l", "s">>, <<"m", "1">>, <<"S", "K", "I", "L", "L", ".", "m", "d">>>>},
         dirs |-> {<<<<"s", "k", "i", "l", "l", "s">>>>, <<<<"s", "k", "i", "l", "l", "s">>, <<"m", "1">>>>},
         unreadable |-> {},
         named |-> {},
         declared |-> {}],
        \* a marketplace skill folder whose frontmatter names it M2
        [files |-> {<<<<"s", "k", "i", "l", "l", "s">>, <<"m", "2">>, <<"S", "K", "I", "L", "L", ".", "m", "d">>>>},
         dirs |-> {<<<<"s", "k", "i", "l", "l", "s">>>>, <<<<"s", "k", "i", "l", "l", "s">>, <<"m", "2">>>>},
         unreadable |-> {},
         named |-> {[path |-> <<<<"s", "k", "i", "l", "l", "s">>, <<"m", "2">>, <<"S", "K", "I", "L", "L", ".", "m", "d">>>>, name |-> <<"M", "2">>]},
         declared |-> {}],
        \* a marketplace skill folder whose name starts with _
        [files |-> {<<<<"s", "k", "i", "l", "l", "s">>, <<"_", "m">>, <<"S", "K", "I", "L", "L", ".", "m", "d">>>>},
         dirs |-> {<<<<"s", "k", "i", "l", "l", "s">>>>, <<<<"s", "k", "i", "l", "l", "s">>, <<"_", "m">>>>},
         unreadable |-> {},
         named |-> {},
         declared |-> {}],
        \* skm.toml declaring bundle d at pk, with a folder skill and a file agent
        [files |-> {<<<<"s", "k", "m", ".", "t", "o", "m", "l">>>>, <<<<"p", "k">>, <<"s", "k", "i", "l", "l", "s">>, <<"s", "1">>, <<"S", "K", "I", "L", "L", ".", "m", "d">>>>, <<<<"p", "k">>, <<"s", "k", "i", "l", "l", "s">>, <<"s", "1">>, <<"r", "u", "n", ".", "s", "h">>>>, <<<<"p", "k">>, <<"a", "g", "e", "n", "t", "s">>, <<"g", ".", "m", "d">>>>},
         dirs |-> {<<<<"p", "k">>>>, <<<<"p", "k">>, <<"a", "g", "e", "n", "t", "s">>>>, <<<<"p", "k">>, <<"s", "k", "i", "l", "l", "s">>>>, <<<<"p", "k">>, <<"s", "k", "i", "l", "l", "s">>, <<"s", "1">>>>},
         unreadable |-> {},
         named |-> {},
         declared |-> {[name |-> <<"d">>, path |-> <<<<"p", "k">>>>]}],
        \* skm.toml declaring d at pk, with components whose names start with _ and .
        [files |-> {<<<<"s", "k", "m", ".", "t", "o", "m", "l">>>>, <<<<"p", "k">>, <<"s", "k", "i", "l", "l", "s">>, <<"_", "t", ".", "m", "d">>>>, <<<<"p", "k">>, <<"s", "k", "i", "l", "l", "s">>, <<".", "h">>, <<"S", "K", "I", "L", "L", ".", "m", "d">>>>},
         dirs |-> {<<<<"p", "k">>>>, <<<<"p", "k">>, <<"s", "k", "i", "l", "l", "s">>>>, <<<<"p", "k">>, <<"s", "k", "i", "l", "l", "s">>, <<".", "h">>>>},
         unreadable |-> {},
         named |-> {},
         declared |-> {[name |-> <<"d">>, path |-> <<<<"p", "k">>>>]}],
        \* skm.toml declaring d at pk, with an unreadable component folder
        [files |-> {<<<<"s", "k", "m", ".", "t", "o", "m", "l">>>>, <<<<"p", "k">>, <<"c", "o", "m", "m", "a", "n", "d", "s">>, <<"c", "1", ".", "m", "d">>>>, <<<<"p", "k">>, <<"c", "o", "m", "m", "a", "n", "d", "s">>, <<"c", "2">>, <<"x", ".", "m", "d">>>>},
         dirs |-> {<<<<"p", "k">>>>, <<<<"p", "k">>, <<"c", "o", "m", "m", "a", "n", "d", "s">>>>, <<<<"p", "k">>, <<"c", "o", "m", "m", "a", "n", "d", "s">>, <<"c", "2">>>>},
         unreadable |-> {<<<<"p", "k">>, <<"c", "o", "m", "m", "a", "n", "d", "s">>, <<"c", "2">>>>},
         named |-> {},
         declared |-> {[name |-> <<"d">>, path |-> <<<<"p", "k">>>>]}],
        \* skm.toml declaring d at pk, with rules of every shape
        [files |-> {<<<<"s", "k", "m", ".", "t", "o", "m", "l">>>>, <<<<"p", "k">>, <<"r", "u", "l", "e", "s">>, <<"f", ".", "m", "d">>>>, <<<<"p", "k">>, <<"r", "u", "l", "e", "s">>, <<"r", "1">>, <<"r", "u", "l", "e", ".", "m", "d">>>>, <<<<"p", "k">>, <<"r", "u", "l", "e", "s">>, <<"r", "2">>, <<"a", "n", "y", ".", "m", "d">>>>, <<<<"p", "k">>, <<"r", "u", "l", "e", "s">>, <<"r", "3">>, <<"n", "o", "t", "e", "s", ".", "t", "x", "t">>>>, <<<<"p", "k">>, <<"r", "u", "l", "e", "s">>, <<"r", "4">>, <<"R", "U", "L", "E", ".", "m", "d">>>>, <<<<"p", "k">>, <<"r", "u", "l", "e", "s">>, <<"r", "4">>, <<"a", ".", "m", "d">>>>},
         dirs |-> {<<<<"p", "k">>>>, <<<<"p", "k">>, <<"r", "u", "l", "e", "s">>>>, <<<<"p", "k">>, <<"r", "u", "l", "e", "s">>, <<"r", "1">>>>, <<<<"p", "k">>, <<"r", "u", "l", "e", "s">>, <<"r", "2">>>>, <<<<"p", "k">>, <<"r", "u", "l", "e", "s">>, <<"r", "3">>>>, <<<<"p", "k">>, <<"r", "u", "l", "e", "s">>, <<"r", "4">>>>},
         unreadable |-> {},
         named |-> {},
         declared |-> {[name |-> <<"d">>, path |-> <<<<"p", "k">>>>]}],
        \* skm.toml declaring bundle n at nx, which has no component directory
        [files |-> {<<<<"s", "k", "m", ".", "t", "o", "m", "l">>>>, <<<<"n", "x">>, <<"n", "o", "t", "e", "s", ".", "t", "x", "t">>>>},
         dirs |-> {<<<<"n", "x">>>>},
         unreadable |-> {},
         named |-> {},
         declared |-> {[name |-> <<"n">>, path |-> <<<<"n", "x">>>>]}],
        \* skm.toml declaring bundle b at the flat bundle directory b
        [files |-> {<<<<"s", "k", "m", ".", "t", "o", "m", "l">>>>, <<<<"b">>, <<"r", "u", "l", "e", "s">>, <<"q", ".", "m", "d", "c">>>>},
         dirs |-> {<<<<"b">>>>, <<<<"b">>, <<"r", "u", "l", "e", "s">>>>},
         unreadable |-> {},
         named |-> {},
         declared |-> {[name |-> <<"b">>, path |-> <<<<"b">>>>]}]
    }

RECURSIVE PartSets(_)
\* the sets of at most n parts
PartSets(n) ==
    IF n = 0 THEN {{}}
    ELSE PartSets(n - 1) \cup {S \cup {p} : S \in PartSets(n - 1), p \in Parts}

\* the source root that holds the given parts, listed by read_dir in
\* ascending or in descending order of name
RootOf(parts, descending) ==
    [some |-> TRUE,
     files |-> UNION {p.files : p \in parts},
     dirs |-> UNION {p.dirs : p \in parts},
     unreadable |-> UNION {p.unreadable : p \in parts},
     named |-> UNION {p.named : p \in parts},
     declared |-> UNION {p.declared : p \in parts},
     descending |-> descending]

Roots == {RootOf(S, d) : S \in PartSets(MaxParts) \ {{}}, d \in BOOLEAN}

(***************************************************************************)
(* Scanning a source root                                                  *)
(***************************************************************************)
InitScan ==
    /\ tool = "Claude"
    /\ stype = "Skill"
    /\ bundle = <<"b">>
    /\ name = <<"n">>
    /\ srcFile = <<>>
    /\ destPath = <<>>
    /\ destFile = <<>>
    /\ via = "none"
    /\ format = "none"
    /\ pc = "ready"
    /\ gen = 0
    /\ sourceDir = NoDir
    /\ companions = {}
    /\ install = NoInstall
    /\ sources = <<>>
    /\ root \in Roots
    /\ outcome = NoOutcome
    /\ base = NoBase
    /\ manifest = NoManifest

\* what a scan leaves behind: the operation and its Result
Scanned(op, res) == [op |-> op, ok |-> res.ok, bundles |-> res.val, found |-> <<>>, source |-> 0]

\* LocalSource::list_bundles on the root
LocalSource_list_bundles ==
    /\ outcome' = Scanned("LocalSource::list_bundles", list_bundles_of(root))
    /\ UNCHANGED <<writeVars, install, sources, root, base, manifest>>

\* Bundle::list_from_anthropic_path on the root
Bundle_list_from_anthropic_path ==
    /\ outcome' = Scanned("list_from_anthropic_path", list_from_anthropic_path(root))
    /\ UNCHANGED <<writeVars, install, sources, root, base, manifest>>

\* a declaration of the manifest turned into a bundle, when skm.toml is
\* there
manifest_bundle ==
    /\ load_manifest(root).some
    /\ \E decl \in load_manifest(root).bundles :
          \E made \in {bundle_from_declaration(root, decl)} :
              outcome' = Scanned("bundle_from_declaration", IF made.ok THEN Ok(<<made.val>>) ELSE Err)
    /\ UNCHANGED <<writeVars, install, sources, root, base, manifest>>

NextScan ==
    \/ LocalSource_list_bundles
    \/ Bundle_list_from_anthropic_path
    \/ manifest_bundle

SpecScan == InitScan /\ [][NextScan]_vars

(***************************************************************************)
(* Scan failures, hidden names and the order of strategies                 *)
(***************************************************************************)
is_prefix_path(p, q) == Len(p) <= Len(q) /\ SubSeq(q, 1, Len(p)) = p

type_dir_names == {dir_name(st) : st \in {"Skill", "Agent", "Command", "Rule"}}

\* the unreadable directories LocalSource::list_bundles has to list: in a
\* resources root the type directories and the resource folders without a
\* file of the expected name, otherwise the type directories of the
\* directories of the root
unreadable_in_scan(r) ==
    IF is_resources_format(r)
    THEN {d \in r.unreadable :
            \E i \in DOMAIN resource_type_dirs :
                LET td == resource_type_dirs[i]
                IN  \/ d = td.dir
                    \/ /\ Len(d) = 3 /\ is_prefix_path(td.dir, d)
                       /\ resource_folder_taken(last_name(d))
                       /\ read_dir_ok(r, td.dir)
                       /\ \A k \in DOMAIN expected_names(td.st) : ~path_exists(r, d \o <<expected_names(td.st)[k]>>)}
    ELSE {d \in r.unreadable :
            /\ Len(d) = 2 /\ d[2] \in type_dir_names
            /\ \E i \in DOMAIN flat_candidates(r) : flat_candidates(r)[i] = <<d[1]>>}

\* the unreadable directories bundle_from_declaration has to list: the
\* component directories and the component folders without a file of the
\* expected name
unreadable_in_declared(r) ==
    {d \in r.unreadable :
        \E decl \in r.declared : \E st \in {"Skill", "Agent", "Command", "Rule"} :
            LET dir == decl.path \o <<dir_name(st)>>
            IN  \/ d = dir
                \/ /\ Len(d) = Len(dir) + 1 /\ is_prefix_path(dir, d)
                   /\ read_dir_ok(r, dir)
                   /\ \A k \in DOMAIN component_expected_names(st) :
                          ~path_exists(r, d \o <<component_expected_names(st)[k]>>)}

\* C17: a scan that has to list a directory it cannot read returns an
\* error: LocalSource::list_bundles for an unreadable type directory or
\* resource folder, bundle_from_declaration for an unreadable component
\* directory or component folder
ScanFailureSurfaced ==
    /\ (outcome.op = "LocalSource::list_bundles" /\ unreadable_in_scan(root) # {}) => ~outcome.ok
    /\ (outcome.op = "bundle_from_declaration" /\ unreadable_in_declared(root) # {}) => ~outcome.ok

hidden_name(nm) == starts_with(nm, <<".">>) \/ starts_with(nm, <<"_">>)

hidden_path(p) == \E i \in DOMAIN p : hidden_name(p[i])

\* the artifacts of a bundle, of every type
artifacts_of(b) ==
    {b.skills[i] : i \in DOMAIN b.skills} \cup {b.agents[i] : i \in DOMAIN b.agents}
        \cup {b.commands[i] : i \in DOMAIN b.commands} \cup {b.rules[i] : i \in DOMAIN b.rules}

\* C18: whatever the strategy, no returned bundle lies at a path with a name
\* that starts with "." or "_", and no artifact of a returned bundle is a
\* file at such a path
NoHiddenOrigin ==
    (outcome.op # "none" /\ outcome.ok) =>
        \A i \in DOMAIN outcome.bundles :
            /\ ~hidden_path(outcome.bundles[i].path)
            /\ \A a \in artifacts_of(outcome.bundles[i]) : ~hidden_path(a.path)

\* a bundle without the fields that differ between the strategies: its
\* name, its path and its artifacts by name, path and type
outline(b) ==
    [name |-> b.name, path |-> b.path,
     files |-> {[name |-> a.name, path |-> a.path, skill_type |-> a.skill_type] : a \in artifacts_of(b)}]

outlines(bs) == {outline(bs[i]) : i \in DOMAIN bs}

\* the bundles of the first strategy that applies, in the order manifest,
\* resources, marketplace, flat
by_priority(r) ==
    IF load_manifest(r).some
    THEN IF \E decl \in r.declared : ~bundle_from_declaration(r, decl).ok
         THEN [ok |-> FALSE, bundles |-> {}]
         ELSE [ok |-> TRUE, bundles |-> {outline(bundle_from_declaration(r, decl).val) : decl \in r.declared}]
    ELSE LET res == IF is_resources_format(r) THEN list_from_resources_path(r)
                    ELSE IF is_anthropic_format(r) THEN list_from_anthropic_path(r)
                    ELSE list_flat(r)
         IN  [ok |-> res.ok, bundles |-> outlines(res.val)]

\* C19: LocalSource::list_bundles returns what the first applicable
\* strategy returns, the strategies taken in the order manifest, resources,
\* marketplace, flat
StrategyByPriority ==
    outcome.op = "LocalSource::list_bundles" =>
        /\ outcome.ok = by_priority(root).ok
        /\ outcome.ok => outlines(outcome.bundles) = by_priority(root).bundles

(***************************************************************************)
(* Grouping of resource folders by resolved name                           *)
(***************************************************************************)
\* the resource folders of a root read off the disk: the folders of a type
\* directory of resources/ that are neither hidden nor templates and hold a
\* markdown file, each with the type of its directory and its resolved name
resource_folders(r) ==
    UNION {{[dir |-> d, st |-> resource_type_dirs[i].st,
             name |-> IF meta_name(r, d) # <<>> THEN meta_name(r, d) ELSE last_name(d)] :
                d \in {q \in r.dirs : /\ Len(q) = 3
                                      /\ is_prefix_path(resource_type_dirs[i].dir, q)
                                      /\ ~hidden_name(last_name(q))
                                      /\ \E f \in r.files : /\ Len(f) = 4 /\ is_prefix_path(q, f)
                                                            /\ extension(last_name(f)) = ext_md}} :
           i \in DOMAIN resource_type_dirs}

\* Bundle::files_of_type
files_of_type(b, st) ==
    CASE st = "Skill" -> b.skills
      [] st = "Agent" -> b.agents
      [] st = "Command" -> b.commands
      [] st = "Rule" -> b.rules

folder_of(file) == SubSeq(file.path, 1, Len(file.path) - 1)

sorted_by_name(v) == \A i, j \in DOMAIN v : i < j => ~str_lt(v[j].name, v[i].name)

\* C21: whatever the strategy and whichever way read_dir lists a
\* directory, the skills, agents, commands and rules of every returned
\* bundle are in ascending order of name, and so are the returned bundles
ListsSortedByName ==
    (outcome.op # "none" /\ outcome.ok) =>
        /\ sorted_by_name(outcome.bundles)
        /\ \A i \in DOMAIN outcome.bundles :
              \A st \in {"Skill", "Agent", "Command", "Rule"} :
                  sorted_by_name(files_of_type(outcome.bundles[i], st))

\* a root listed in descending order gave two bundles, one of them with two
\* artifacts of different names in one list
SortedAgainstListingOrder ==
    /\ root.descending
    /\ outcome.op = "LocalSource::list_bundles"
    /\ outcome.ok
    /\ Len(outcome.bundles) >= 2
    /\ \E i \in DOMAIN outcome.bundles : \E st \in {"Skill", "Agent", "Command", "Rule"} :
          LET held == files_of_type(outcome.bundles[i], st)
          IN  Len(held) >= 2 /\ held[1].name # held[2].name

children(r, dir) == {p \in r.files \cup r.dirs : Len(p) = Len(dir) + 1 /\ is_prefix_path(dir, p)}

\* the canonical content files of a type, upper- and lowercase
canonical_names(st) ==
    CASE st = "Skill" -> {<<"S", "K", "I", "L", "L", ".", "m", "d">>, <<"s", "k", "i", "l", "l", ".", "m", "d">>}
      [] st = "Agent" -> {<<"A", "G", "E", "N", "T", ".", "m", "d">>, <<"a", "g", "e", "n", "t", ".", "m", "d">>}
      [] st = "Command" -> {<<"C", "O", "M", "M", "A", "N", "D", ".", "m", "d">>, <<"c", "o", "m", "m", "a", "n", "d", ".", "m", "d">>}
      [] st = "Rule" -> {<<"R", "U", "L", "E", ".", "m", "d">>, <<"r", "u", "l", "e", ".", "m", "d">>}

\* what C23 says of the list scan_component_dir returned for a directory
both_shapes(r, dir, st, list) ==
    LET held == {list[i] : i \in DOMAIN list}
        from_folder(d) == {a \in held : a.source_dir = [some |-> TRUE, path |-> d]}
        md_in(d) == {f \in children(r, d) : f \in r.files /\ extension(last_name(f)) = <<"m", "d">>}
        canonical_in(d) == {f \in children(r, d) : last_name(f) \in canonical_names(st)}
    IN  /\ ~path_exists(r, dir) => list = <<>>
        /\ \A f \in children(r, dir) :
              (f \in r.files /\ extension(last_name(f)) = <<"m", "d">>) =>
                  \E a \in held : /\ a.name = file_stem(last_name(f)) /\ a.path = f
                                  /\ a.source_dir = [some |-> FALSE, path |-> <<>>]
                                  /\ a.skill_type = st
        /\ \A d \in children(r, dir) :
              d \in r.dirs =>
                  /\ Cardinality(from_folder(d)) <= 1
                  /\ Cardinality(from_folder(d)) = Cardinality({i \in DOMAIN list : list[i].source_dir = [some |-> TRUE, path |-> d]})
                  /\ \A a \in from_folder(d) :
                        /\ a.name = last_name(d)
                        /\ a.skill_type = st
                        /\ IF canonical_in(d) # {} THEN a.path \in canonical_in(d) ELSE a.path \in md_in(d)
                  /\ md_in(d) = {} => from_folder(d) = {}

\* C23: the lists bundle_from_declaration gets from scan_component_dir for
\* the four component directories of a declaration: a directory that does
\* not exist gives the empty list and no error, every flat .md file gives an
\* artifact named by its stem without source_dir, every subdirectory gives
\* at most one artifact, named after the folder with source_dir the folder,
\* whose file is the canonical file of the type when there is one and
\* otherwise a .md file of the folder, and a subdirectory without a .md file
\* gives nothing
BothShapesScanned ==
    (outcome.op = "bundle_from_declaration") =>
        /\ (\A st \in {"Skill", "Agent", "Command", "Rule"} :
               \A decl \in root.declared : ~path_exists(root, decl.path \o <<dir_name(st)>>)) => outcome.ok
        /\ outcome.ok =>
              \A st \in {"Skill", "Agent", "Command", "Rule"} :
                  both_shapes(root, outcome.bundles[1].path \o <<dir_name(st)>>, st,
                              files_of_type(outcome.bundles[1], st))

\* a rules directory with a flat file, a folder with the canonical file, a
\* folder with another .md file only and a folder without a .md file was
\* scanned, next to a skills directory that does not exist
MixedShapesScanned ==
    /\ outcome.op = "bundle_from_declaration"
    /\ outcome.ok
    /\ ~path_exists(root, outcome.bundles[1].path \o <<dir_name("Skill")>>)
    /\ Len(outcome.bundles[1].rules) = 4
    /\ \E i, j, k \in DOMAIN outcome.bundles[1].rules :
          LET rules == outcome.bundles[1].rules
          IN  /\ ~rules[i].source_dir.some
              /\ rules[j].source_dir.some /\ last_name(rules[j].path) \in canonical_names("Rule")
              /\ rules[k].source_dir.some /\ last_name(rules[k].path) \notin canonical_names("Rule")
    /\ \E d \in children(root, outcome.bundles[1].path \o <<dir_name("Rule")>>) :
          d \in root.dirs /\ \A i \in DOMAIN outcome.bundles[1].rules :
                                 outcome.bundles[1].rules[i].source_dir # [some |-> TRUE, path |-> d]

(***************************************************************************)
(* Legacy attribution by prefix                                            *)
(***************************************************************************)
\* what the sources list for the lookup by prefix: among the bundle names
\* is the empty name, which a meta.yaml or a frontmatter with `name: ""`
\* gives a bundle
PrefixResults ==
    {ListErr, ListOk(<<>>), ListOk(<<name_b>>), ListOk(<<name_b, name_b_x>>), ListOk(<<name_c>>),
     ListOk(<<<<>>>>), ListOk(<<<<>>, name_b>>)}

InitPrefix ==
    /\ tool = "Claude"
    /\ stype = "Skill"
    /\ bundle = <<"b">>
    /\ name = <<"n">>
    /\ srcFile = <<>>
    /\ destPath = <<>>
    /\ destFile = <<>>
    /\ via = "none"
    /\ format = "none"
    /\ pc = "ready"
    /\ gen = 0
    /\ sourceDir = NoDir
    /\ companions = {}
    /\ install = NoInstall
    /\ sources \in SeqsUpTo(PrefixResults, MaxSources)
    /\ root = NoRoot
    /\ outcome = NoOutcome
    /\ base = NoBase
    /\ manifest = NoManifest

NextPrefix == find_bundle_by_prefix

SpecPrefix == InitPrefix /\ [][NextPrefix]_vars

\* the names of the bundles the sources list
known_bundles == UNION {BundlesOfSource(i) : i \in {j \in DOMAIN sources : sources[j].ok}}

\* C24: find_bundle_by_prefix returns a known bundle whose name followed by
\* "-" is a prefix of the installed name and than which no known bundle
\* with that property has a longer name; it returns None exactly when no
\* known bundle has that property
LongestPrefixAttributed ==
    outcome.op = "find_bundle_by_prefix" =>
        LET s == outcome.bundles[1]
            cands == {b \in known_bundles : starts_with(s, b \o <<"-">>)}
        IN  /\ (outcome.found = <<>>) <=> (cands = {})
            /\ outcome.found # <<>> =>
                  /\ outcome.found \in cands
                  /\ \A b \in cands : Len(b) <= Len(outcome.found)

(***************************************************************************)
(* The installed artifacts below a base directory (src/discover.rs)        *)
(*                                                                         *)
(* The base directory is a tree of files and directories; a path is the    *)
(* sequence of its component names below the base.                         *)
(***************************************************************************)
MaxInstalled == 2

nm_dot_claude == <<".", "c", "l", "a", "u", "d", "e">>
nm_dot_opencode == <<".", "o", "p", "e", "n", "c", "o", "d", "e">>
nm_dot_cursor == <<".", "c", "u", "r", "s", "o", "r">>
nm_skill == <<"s", "k", "i", "l", "l">>
nm_agent == <<"a", "g", "e", "n", "t">>
nm_command == <<"c", "o", "m", "m", "a", "n", "d">>
nm_skills == <<"s", "k", "i", "l", "l", "s">>
nm_agents == <<"a", "g", "e", "n", "t", "s">>
nm_commands == <<"c", "o", "m", "m", "a", "n", "d", "s">>
nm_rules == <<"r", "u", "l", "e", "s">>

\* the components of a path below target_dir
components(path, target_dir) == split(SubSeq(path, Len(target_dir) + 2, Len(path)), "/")

\* Path::parent
parent(p) == SubSeq(p, 1, Len(p) - 1)

\* Option<String>
None == [some |-> FALSE, val |-> <<>>]

Some(v) == [some |-> TRUE, val |-> v]

InstalledSkill(skill_name, st, t, path, bundle_name) ==
    [name |-> skill_name, skill_type |-> st, tool |-> t, path |-> path, bundle |-> bundle_name]

\* fs::create_dir_all(parent) and the write of the file
create_file(t, path) ==
    [t EXCEPT !.files = @ \cup {path},
              !.dirs = @ \cup {SubSeq(path, 1, k) : k \in 1..(Len(path) - 1)}]

\* WalkDir::new(dir) filtered to files with the extension md
walk_md(t, dir) ==
    {p \in t.files : Len(p) > Len(dir) /\ is_prefix_path(dir, p) /\ extension(last_name(p)) = ext_md}

\* the two loops of discover_claude: .claude/commands/**/*.md and
\* .claude/agents/**/*.md
claude_type(t, dir, st) ==
    IF ~path_exists(t, dir) THEN {}
    ELSE {InstalledSkill(file_stem(last_name(p)), st, "Claude", p,
                         IF parent(p) # dir THEN Some(last_name(parent(p))) ELSE None) :
            p \in {q \in walk_md(t, dir) : file_stem(last_name(q)) # <<>>}}

discover_claude(t) ==
    IF ~path_exists(t, <<nm_dot_claude>>) THEN {}
    ELSE claude_type(t, <<nm_dot_claude, nm_commands>>, "Command")
         \cup claude_type(t, <<nm_dot_claude, nm_agents>>, "Agent")

\* a loop over dir/*/<file>: the folder is the name and the bundle
folder_type(t, dir, file, st, tl) ==
    IF ~path_exists(t, dir) THEN {}
    ELSE {InstalledSkill(last_name(p), st, tl, p \o <<file>>, Some(last_name(p))) :
            p \in {q \in entries_of(t, dir) : path_is_dir(t, q) /\ path_exists(t, q \o <<file>>)
                                               /\ last_name(q) # <<>>}}

\* a loop over dir/*.md: the file stem is the name, no bundle
flat_type(t, dir, st, tl) ==
    IF ~path_exists(t, dir) THEN {}
    ELSE {InstalledSkill(file_stem(last_name(p)), st, tl, p, None) :
            p \in {q \in entries_of(t, dir) : path_is_file(t, q) /\ extension(last_name(q)) = ext_md
                                               /\ file_stem(last_name(q)) # <<>>}}

discover_opencode(t) ==
    IF ~path_exists(t, <<nm_dot_opencode>>) THEN {}
    ELSE folder_type(t, <<nm_dot_opencode, nm_skill>>, str_SKILL_md, "Skill", "OpenCode")
         \cup flat_type(t, <<nm_dot_opencode, nm_agent>>, "Agent", "OpenCode")
         \cup flat_type(t, <<nm_dot_opencode, nm_command>>, "Command", "OpenCode")

discover_cursor(t) ==
    IF ~path_exists(t, <<nm_dot_cursor>>) THEN {}
    ELSE folder_type(t, <<nm_dot_cursor, nm_skills>>, str_SKILL_md, "Skill", "Cursor")
         \cup folder_type(t, <<nm_dot_cursor, nm_rules>>, str_RULE_md, "Rule", "Cursor")

\* the skills of the returned Vec; read_dir and WalkDir fix no order
discover_installed(t) == discover_claude(t) \cup discover_opencode(t) \cup discover_cursor(t)

\* std::fs::remove_dir_all
remove_dir_all(t, dir) ==
    [t EXCEPT !.files = {p \in @ : ~is_prefix_path(dir, p)},
              !.dirs = {p \in @ : ~is_prefix_path(dir, p)}]

RECURSIVE prune_empty(_, _)
\* the walk up of remove_skill: an ancestor whose name begins with a dot
\* ends it, an empty one is removed, one that has entries ends it
prune_empty(t, dir) ==
    IF dir = <<>> \/ starts_with(last_name(dir), <<".">>) THEN t
    ELSE IF entries_of(t, dir) = {} THEN prune_empty([t EXCEPT !.dirs = @ \ {dir}], parent(dir))
    ELSE t

\* remove_skill: Ok with the tree it leaves, or Err
remove_skill_from(t, skill) ==
    IF skill.skill_type \in {"Skill", "Rule"} /\ skill.path # <<>> /\ path_is_dir(t, parent(skill.path))
    THEN Ok(remove_dir_all(t, parent(skill.path)))
    ELSE IF ~path_is_file(t, skill.path) THEN Err
    ELSE Ok(prune_empty([t EXCEPT !.files = @ \ {skill.path}], parent(skill.path)))

\* skill_matches_bundle (main.rs)
skill_matches_bundle(skill, bundle_name) ==
    \/ skill.bundle = Some(bundle_name)
    \/ starts_with(skill.name, bundle_name \o <<"-">>)
    \/ skill.name = bundle_name

RECURSIVE remove_each(_, _, _)
\* the loop of remove_bundle over the matching skills: the tree it leaves
\* and the numbers of removed and failed skills
remove_each(t, skills, i) ==
    IF i > Len(skills) THEN [tree |-> t, removed |-> 0, errors |-> 0]
    ELSE LET r == remove_skill_from(t, skills[i])
             rest == remove_each(IF r.ok THEN r.val ELSE t, skills, i + 1)
         IN  [rest EXCEPT !.removed = @ + (IF r.ok THEN 1 ELSE 0), !.errors = @ + (IF r.ok THEN 0 ELSE 1)]

\* the orders a directory listing can give a set of skills in
orderings(S) == {s \in [1..Cardinality(S) -> S] : \A i, j \in DOMAIN s : s[i] = s[j] => i = j}

(***************************************************************************)
(* Installing into, listing and removing from a base directory             *)
(***************************************************************************)
\* bundle names: one is a prefix of another, one begins with a dot (a
\* meta.yaml or a declaration may name a bundle so)
BaseBundles == {<<"b">>, <<"b", "-", "x">>, <<".", "b">>}

\* artifact names: one is also a bundle name
BaseNames == {<<"n">>, <<"x", "-", "n">>, <<"b">>}

\* the resource folders an artifact is scanned from: two folders of one
\* type whose meta.yaml resolve to one name give one bundle two artifacts
\* of that name
ArtifactSources == {<<"f", "1">>, <<"f", "2">>}

\* the arguments of write_file
Artifacts == [tool : Tools, skill_type : SkillTypes, bundle : BaseBundles, name : BaseNames]

\* Tool::write_file of a readable artifact below the base directory
written_for == [a \in Artifacts |-> write_file(a.tool, TargetDir, a.bundle, a.skill_type, a.name, line_heading, TRUE)]

\* the primary destination of the artifact, below the base
destination(a) == components(written_for[a].path, TargetDir)

InitBase ==
    /\ tool = "Claude"
    /\ stype = "Skill"
    /\ bundle = <<"b">>
    /\ name = <<"n">>
    /\ srcFile = <<>>
    /\ destPath = <<>>
    /\ destFile = <<>>
    /\ via = "none"
    /\ format = "none"
    /\ pc = "ready"
    /\ gen = 0
    /\ sourceDir = NoDir
    /\ companions = {}
    /\ install = NoInstall
    /\ sources = <<>>
    /\ root = NoRoot
    /\ outcome = NoOutcome
    /\ base = NoBase
    /\ manifest = NoManifest

\* the tree of the base directory
tree_of(b) == [files |-> b.files, dirs |-> b.dirs]

\* Tool::write_file(target_dir, bundle, skill): installs one artifact
Tool_write_file ==
    /\ base.op \in {"none", "write_file"}
    /\ Cardinality(base.installed) < MaxInstalled
    /\ \E a \in Artifacts, src \in ArtifactSources :
          /\ written_for[a].res.ok
          /\ [artifact |-> a, source |-> src, path |-> destination(a)] \notin base.installed
          /\ base' = [create_file(base, destination(a)) EXCEPT
                         !.installed = @ \cup {[artifact |-> a, source |-> src, path |-> destination(a)]},
                         !.op = "write_file"]
    /\ UNCHANGED <<writeVars, install, sources, root, outcome, manifest>>

\* discover_installed(base)
Discover_installed ==
    /\ base.op \in {"none", "write_file"}
    /\ base' = [base EXCEPT !.op = "discover_installed", !.listed = discover_installed(base),
                            !.before = tree_of(base)]
    /\ UNCHANGED <<writeVars, install, sources, root, outcome, manifest>>

\* remove_skill(skill) of a discovered skill
Remove_skill ==
    /\ base.op \in {"none", "write_file"}
    /\ \E skill \in discover_installed(base) :
          \E r \in {remove_skill_from(base, skill)} :
             base' = [(IF r.ok THEN r.val ELSE base) EXCEPT
                         !.op = "remove_skill", !.arg = skill, !.ok = r.ok, !.before = tree_of(base)]
    /\ UNCHANGED <<writeVars, install, sources, root, outcome, manifest>>

\* remove_bundle(bundle_name, tool_filter = None, base), confirmed: the
\* discovered skills that match the name are removed one by one
Remove_bundle ==
    /\ base.op \in {"none", "write_file"}
    /\ \E bundle_name \in BaseBundles :
          \E skills \in orderings({s \in discover_installed(base) : skill_matches_bundle(s, bundle_name)}) :
             \E r \in {remove_each(base, skills, 1)} :
                base' = [r.tree EXCEPT !.op = "remove_bundle", !.arg = bundle_name,
                                       !.listed = {skills[i] : i \in DOMAIN skills},
                                       !.removed = r.removed, !.errors = r.errors,
                                       !.before = tree_of(base)]
    /\ UNCHANGED <<writeVars, install, sources, root, outcome, manifest>>

NextBase == Tool_write_file \/ Discover_installed \/ Remove_skill \/ Remove_bundle

SpecBase == InitBase /\ [][NextBase]_vars

(***************************************************************************)
(* Removal of one installed artifact                                       *)
(***************************************************************************)
\* the files below a directory
files_below(t, dir) == {p \in t.files : Len(p) > Len(dir) /\ is_prefix_path(dir, p)}

\* the directories from the parent of a file up to the one directly below
\* the tool's marker directory
ancestors_below_marker(path) == {SubSeq(path, 1, k) : k \in 2..(Len(path) - 1)}

\* C25: removing a folder-based artifact deletes exactly the artifact's
\* directory and what is in it; removing a flat-file artifact deletes the
\* file and every ancestor directory below the tool's marker directory that
\* is left without a file, and no other directory; the marker directory
\* stays, and no other file is removed.
SafeRemoval ==
    (base.op = "remove_skill" /\ base.ok) =>
        LET skill == base.arg
            was == base.before
            dir == parent(skill.path)
        IN  IF skill.skill_type \in {"Skill", "Rule"}
            THEN /\ base.files = {p \in was.files : ~is_prefix_path(dir, p)}
                 /\ base.dirs = {p \in was.dirs : ~is_prefix_path(dir, p)}
            ELSE /\ base.files = was.files \ {skill.path}
                 /\ base.dirs = {d \in was.dirs : d \in ancestors_below_marker(skill.path)
                                                    => files_below(base, d) # {}}
                 /\ <<skill.path[1]>> \in base.dirs

(***************************************************************************)
(* What is installed can be found again                                    *)
(***************************************************************************)
\* C27: after discover_installed every artifact that write_file installed
\* below the base is listed with the path of its primary file, its tool and
\* its artifact type.
InstalledIsDiscovered ==
    base.op = "discover_installed" =>
        \A i \in base.installed :
            \E s \in base.listed :
                /\ s.path = i.path
                /\ s.tool = i.artifact.tool
                /\ s.skill_type = i.artifact.skill_type

(***************************************************************************)
(* Destinations of different artifacts                                     *)
(***************************************************************************)
\* C28: two installed artifacts of one tool and one type that differ in
\* their bundle name or artifact name, or that are distinct artifacts of
\* one bundle, have different primary destination paths.
NoDestinationCollision ==
    \A i, j \in base.installed :
        (i # j /\ i.artifact.tool = j.artifact.tool /\ i.artifact.skill_type = j.artifact.skill_type)
            => i.path # j.path

(***************************************************************************)
(* Removal of a bundle                                                     *)
(***************************************************************************)
\* C29: after remove_bundle(X) every file that is gone was installed from
\* bundle X, and the file of every artifact installed from another bundle
\* is still there.
RemovalConfinedToBundle ==
    base.op = "remove_bundle" =>
        /\ \A p \in base.before.files \ base.files :
              \E i \in base.installed : i.path = p /\ i.artifact.bundle = base.arg
        /\ \A i \in base.installed : i.artifact.bundle # base.arg => i.path \in base.files

(***************************************************************************)
(* The install manifest (src/install_manifest.rs)                          *)
(***************************************************************************)
MaxRecorded == 3

ManifestNames == {name_b, name_b_x, name_c}

ManifestSources == {<<"~", "/", "o", "l", "d">>, <<"~", "/", "n", "e", "w">>}

ManifestEntry(n, src) == [name |-> n, source |-> src]

\* a record_install that pushes whether or not the name is there
record_by_push(bundles, n, src) == Append(bundles, ManifestEntry(n, src))

\* InstallManifest::record_install: the first entry of that name gets the
\* source, or a new entry is pushed
record_install(bundles, n, src) ==
    LET hits == {k \in DOMAIN bundles : bundles[k].name = n}
    IN  IF hits # {}
        THEN [bundles EXCEPT ![CHOOSE k \in hits : \A h \in hits : k <= h].source = src]
        ELSE Append(bundles, ManifestEntry(n, src))

\* self.bundles.retain(|e| e.name != name)
retain_other_names(bundles, n) == SelectSeq(bundles, LAMBDA e : e.name # n)

\* InstallManifest::remove_bundle: the entries it leaves and what it returns
InstallManifest_remove_bundle(bundles, n) ==
    [bundles |-> retain_other_names(bundles, n),
     returned |-> Len(retain_other_names(bundles, n)) < Len(bundles)]

InitManifest ==
    /\ tool = "Claude"
    /\ stype = "Skill"
    /\ bundle = <<"b">>
    /\ name = <<"n">>
    /\ srcFile = <<>>
    /\ destPath = <<>>
    /\ destFile = <<>>
    /\ via = "none"
    /\ format = "none"
    /\ pc = "ready"
    /\ gen = 0
    /\ sourceDir = NoDir
    /\ companions = {}
    /\ install = NoInstall
    /\ sources = <<>>
    /\ root = NoRoot
    /\ outcome = NoOutcome
    /\ base = NoBase
    /\ manifest = NoManifest

\* manifest.record_install(name, source)
Record_install ==
    /\ \E n \in ManifestNames, src \in ManifestSources :
          /\ Len(record_install(manifest.bundles, n, src)) <= MaxRecorded
          /\ manifest' = [bundles |-> record_install(manifest.bundles, n, src), op |-> "record_install",
                          name |-> n, source |-> src, returned |-> FALSE, before |-> manifest.bundles]
    /\ UNCHANGED <<writeVars, install, sources, root, outcome, base>>

\* manifest.remove_bundle(name)
Manifest_remove_bundle ==
    /\ \E n \in ManifestNames :
          manifest' = [bundles |-> InstallManifest_remove_bundle(manifest.bundles, n).bundles,
                       op |-> "remove_bundle", name |-> n, source |-> <<>>,
                       returned |-> InstallManifest_remove_bundle(manifest.bundles, n).returned,
                       before |-> manifest.bundles]
    /\ UNCHANGED <<writeVars, install, sources, root, outcome, base>>

NextManifest == Record_install \/ Manifest_remove_bundle

SpecManifest == InitManifest /\ [][NextManifest]_vars

\* the places of the entries of a name
places(bundles, n) == {k \in DOMAIN bundles : bundles[k].name = n}

\* the sequence without its k-th entry
without(bundles, k) == SubSeq(bundles, 1, k - 1) \o SubSeq(bundles, k + 1, Len(bundles))

\* C26: a manifest that began empty holds at most one entry for a name;
\* record_install of a name it holds changes only the source of that entry,
\* of a new name adds the entry at the end; remove_bundle returns true
\* exactly when the name had an entry, and leaves the other entries as they
\* were, in their order, and none of that name.
ManifestBookkeeping ==
    LET was == manifest.before
        now == manifest.bundles
        n == manifest.name
    IN  /\ \A i, j \in DOMAIN now : now[i].name = now[j].name => i = j
        /\ manifest.op = "record_install" =>
              IF places(was, n) # {}
              THEN /\ Len(now) = Len(was)
                   /\ \A k \in DOMAIN was :
                         now[k] = IF k \in places(was, n) THEN ManifestEntry(n, manifest.source) ELSE was[k]
              ELSE now = was \o <<ManifestEntry(n, manifest.source)>>
        /\ manifest.op = "remove_bundle" =>
              /\ manifest.returned <=> (places(was, n) # {})
              /\ places(now, n) = {}
              /\ IF places(was, n) = {} THEN now = was
                 ELSE \E k \in places(was, n) : now = without(was, k)

\* record_install gave a new source to the first of two entries
UpsertKeptPlace ==
    /\ manifest.op = "record_install"
    /\ Len(manifest.before) = 2
    /\ manifest.before[1].name = manifest.name
    /\ manifest.before[1].source # manifest.source

(***************************************************************************)
(* What the conversion to a tools list leaves alone                        *)
(***************************************************************************)
\* the lines of a frontmatter outside its tools block: the block is the
\* first bare `tools:` line and the indented lines that follow it
outside_tools_block(fm) ==
    LET at == CHOOSE i \in DOMAIN fm : fm[i] = str_tools_colon /\ \A j \in 1..(i - 1) : fm[j] # str_tools_colon
        last == CHOOSE e \in at..Len(fm) :
                    /\ \A j \in (at + 1)..e : starts_with(fm[j], <<" ">>)
                    /\ (e < Len(fm) => ~starts_with(fm[e + 1], <<" ">>))
    IN  SubSeq(fm, 1, at - 1) \o SubSeq(fm, last + 1, Len(fm))

\* C30: transform_agent_for_claude on a file with a tools block writes the
\* frontmatter lines outside the block unchanged and in order, names none
\* of them in the `tools:` line it writes, and writes the body lines
\* unchanged and in order.
OutsideToolsBlockUntouched ==
    (/\ pc = "written"
     /\ via = "transform_agent_for_claude"
     /\ \E i \in DOMAIN FrontmatterOf(srcFile) : FrontmatterOf(srcFile)[i] = str_tools_colon) =>
        LET others == outside_tools_block(FrontmatterOf(srcFile))
            out == FrontmatterOf(destFile)
            list == FieldLines(destFile, str_tools_prefix)
        IN  /\ SelectSeq(out, LAMBDA l : ~starts_with(l, str_tools_prefix)) = others
            /\ \A k \in DOMAIN others : \A j \in DOMAIN list :
                  \A m \in DOMAIN ListItems(list[j]) : ListItems(list[j])[m] # EntryName(others[k])
            /\ BodyOf(destFile) = BodyOf(srcFile)
====
